---- MODULE Spec2Model ----
(***************************************************************************)
(* Model of the AETHER-OS audit ledger: the block model (aether-core       *)
(* ledger.rs), the chain hasher/verifier (aether-ledger chain.rs), the     *)
(* in-memory storage (storage.rs) and the verifier orchestrator            *)
(* (verify.rs).                                                            *)
(*                                                                         *)
(* Strings are TLA+ strings; formatting is string concatenation.  The      *)
(* SHA-256 hex digest is treated as collision-free: the digest of a string *)
(* s is the symbolic term "sha256(s)", which is injective in s and differs *)
(* from every literal hash the callers supply.                             *)
(***************************************************************************)
EXTENDS Integers, Sequences, FiniteSets, TLC

VARIABLES
    blocks,     \* InMemoryLedgerStorage.blocks: tenant key -> Vec<LedgerBlock>
    poisoned,   \* whether the RwLock around `blocks` is poisoned
    ret,        \* the last call made on the storage / verifier and what it returned
    hist,       \* history: per tenant id, the blocks of the successful appends, in order
    chain,      \* input of the pure chain functions (a slice of blocks)
    orig,       \* the slice as it was written, before it was altered
    tamper,     \* the alteration made to the written slice, if any
    lock,       \* the RwLock around `blocks`: the thread holding the write guard, the threads holding read guards
    thr,        \* per thread: where it is in its call on the storage, the call and its result
    text,       \* the string held by a BlockHash under inspection
    builder,    \* the LedgerBlockBuilder under construction, if any
    manager,    \* the SessionManager, if any: its sessions by key string and its max_history
    said        \* per session key string, the messages added since the session was last created

vars == <<blocks, poisoned, ret, hist, chain, orig, tamper, lock, thr, text, builder, manager, said>>
session_vars == <<manager, said>>
store_vars == <<blocks, poisoned, hist>>
slice_vars == <<chain, orig, tamper>>
thread_vars == <<lock, thr>>
other_vars == <<thread_vars, text, builder>>

----------------------------------------------------------------------------
(* Bounds of the model *)

\* total number of blocks the store may hold
MaxBlocks == 3
\* longest slice handed to verify_chain directly
MaxChain == 3
\* most members put into a payload object
MaxMembers == 2
\* largest max_history a SessionManager is created with
MaxHistory == 3
\* most turns added to one session
MaxTurns == 3
\* most characters of a string put into a BlockHash for is_valid
MaxText == 65

\* Uuid values (u128) of the tenants and of the block ids callers use, and the
\* sequence numbers they use
TenantIds == {1, 2}
BlockIds == {1, 2}
SeqNums == {1, 2}

----------------------------------------------------------------------------
(* aether-core: ids.rs, ledger.rs, error.rs *)

\* Display of a Uuid: lower-case hyphenated hex (values below 10 here)
uuid_to_string(u) == "00000000-0000-4000-8000-00000000000" \o ToString(u)

\* Display of a u64
u64_to_string(n) == ToString(n)

\* BlockHash::genesis(): "0".repeat(64)
genesis == "0000000000000000000000000000000000000000000000000000000000000000"

\* char::is_ascii_hexdigit: '0'..='9' | 'A'..='F' | 'a'..='f'
is_ascii_hexdigit(c) ==
    \/ c \in {"0", "1", "2", "3", "4", "5", "6", "7", "8", "9"}
    \/ c \in {"A", "B", "C", "D", "E", "F"}
    \/ c \in {"a", "b", "c", "d", "e", "f"}

\* the bytes of one character in UTF-8: one for ASCII, two for the accented
\* letters of the texts below
len_utf8(c) == IF c \in {"é"} THEN 2 ELSE 1

\* str::len(): the length of a string in bytes
RECURSIVE str_len(_)
str_len(s) ==
    IF Len(s) = 0 THEN 0
    ELSE len_utf8(SubSeq(s, 1, 1)) + str_len(SubSeq(s, 2, Len(s)))

\* is_valid that checks the length only
is_valid_length_only(s) == str_len(s) = 64

\* is_valid that takes lower-case digits only
is_valid_lower_case_only(s) ==
    /\ str_len(s) = 64
    /\ \A i \in 1..Len(s) : is_ascii_hexdigit(SubSeq(s, i, i)) /\ SubSeq(s, i, i) \notin {"A", "B", "C", "D", "E", "F"}

\* BlockHash::is_valid
is_valid(s) ==
    /\ str_len(s) = 64
    /\ \A i \in 1..Len(s) : is_ascii_hexdigit(SubSeq(s, i, i))

\* Sha256 + format!("{:x}"): collision-free digest of a string
Sha256Hex(s) == "sha256(" \o s \o ")"

\* a canonical string that leaves the output hash out
canonical_string_without_output(b) ==
    uuid_to_string(b.id) \o "|" \o u64_to_string(b.sequence_number) \o "|"
        \o b.input_hash \o "|" \o b.parent_hash

\* a canonical string that puts nothing between the fields
canonical_string_undelimited(b) ==
    uuid_to_string(b.id) \o u64_to_string(b.sequence_number)
        \o b.input_hash \o b.output_hash \o b.parent_hash

\* a canonical string that leaves the sequence number out
canonical_string_without_sequence(b) ==
    uuid_to_string(b.id) \o "|" \o b.input_hash \o "|" \o b.output_hash
        \o "|" \o b.parent_hash

\* LedgerBlock::canonical_string
canonical_string(b) ==
    uuid_to_string(b.id) \o "|" \o u64_to_string(b.sequence_number) \o "|"
        \o b.input_hash \o "|" \o b.output_hash \o "|" \o b.parent_hash

\* Result<T>: Ok(v) / Err(e)
NoError == [kind |-> "None", block_id |-> "", reason |-> ""]
Ok(v) == [ok |-> TRUE, val |-> v, err |-> NoError]
Err(e) == [ok |-> FALSE, val |-> <<>>, err |-> e]

\* AetherError::LedgerIntegrityViolation { block_id, reason }
LedgerIntegrityViolation(block_id, reason) ==
    [kind |-> "LedgerIntegrityViolation", block_id |-> block_id, reason |-> reason]

\* AetherError::not_found("LedgerBlock", id)
not_found(id) == [kind |-> "NotFound", block_id |-> uuid_to_string(id), reason |-> "LedgerBlock"]

\* AetherError::internal(msg)
internal(msg) == [kind |-> "Internal", block_id |-> "", reason |-> msg]

----------------------------------------------------------------------------
(* aether-ledger: chain.rs *)

\* compute_block_hash: the digest of the canonical string
compute_block_hash(b) == Sha256Hex(canonical_string(b))

\* the error of the first-block check
first_block_error(b) ==
    LedgerIntegrityViolation(uuid_to_string(b.id), "first block parent_hash is not genesis")

\* the error of the adjacent-pair check
mismatch_error(curr, expected_parent) ==
    LedgerIntegrityViolation(
        uuid_to_string(curr.id),
        "parent_hash mismatch at seq " \o u64_to_string(curr.sequence_number)
            \o ": expected " \o expected_parent \o ", got " \o curr.parent_hash)

\* the loop, naming the earlier block of the broken pair in the error
RECURSIVE verify_windows_cites_prev(_, _)
verify_windows_cites_prev(bs, i) ==
    IF i + 1 > Len(bs)
    THEN Ok(<<>>)
    ELSE LET prev == bs[i]
             curr == bs[i + 1]
             expected_parent == compute_block_hash(prev)
         IN  IF curr.parent_hash # expected_parent
             THEN Err(mismatch_error(prev, expected_parent))
             ELSE verify_windows_cites_prev(bs, i + 1)

\* the loop, expecting each block to carry its own chain-hash
RECURSIVE verify_windows_hashes_curr(_, _)
verify_windows_hashes_curr(bs, i) ==
    IF i + 1 > Len(bs)
    THEN Ok(<<>>)
    ELSE LET curr == bs[i + 1]
             expected_parent == compute_block_hash(curr)
         IN  IF curr.parent_hash # expected_parent
             THEN Err(mismatch_error(curr, expected_parent))
             ELSE verify_windows_hashes_curr(bs, i + 1)

\* a loop that also wants each sequence number to be its predecessor's plus one
RECURSIVE verify_windows_checks_sequence(_, _)
verify_windows_checks_sequence(bs, i) ==
    IF i + 1 > Len(bs)
    THEN Ok(<<>>)
    ELSE LET prev == bs[i]
             curr == bs[i + 1]
             expected_parent == compute_block_hash(prev)
         IN  IF \/ curr.parent_hash # expected_parent
                \/ curr.sequence_number # prev.sequence_number + 1
             THEN Err(mismatch_error(curr, expected_parent))
             ELSE verify_windows_checks_sequence(bs, i + 1)

\* the loop over blocks.windows(2), from the window (bs[i], bs[i+1]) on
RECURSIVE verify_windows(_, _)
verify_windows(bs, i) ==
    IF i + 1 > Len(bs)
    THEN Ok(<<>>)
    ELSE LET prev == bs[i]
             curr == bs[i + 1]
             expected_parent == compute_block_hash(prev)
         IN  IF curr.parent_hash # expected_parent
             THEN Err(mismatch_error(curr, expected_parent))
             ELSE verify_windows(bs, i + 1)

\* verify_chain without the check of the first block
verify_chain_no_genesis_check(bs) ==
    IF Len(bs) = 0 THEN Ok(<<>>) ELSE verify_windows(bs, 1)

\* verify_chain without the loop over the adjacent pairs
verify_chain_first_only(bs) ==
    IF Len(bs) = 0
    THEN Ok(<<>>)
    ELSE IF bs[1].parent_hash # genesis
         THEN Err(first_block_error(bs[1]))
         ELSE Ok(<<>>)

\* verify_chain that runs the loop over the pairs before it looks at the first block
verify_chain_pairs_first(bs) ==
    IF Len(bs) = 0
    THEN Ok(<<>>)
    ELSE IF ~verify_windows(bs, 1).ok
         THEN verify_windows(bs, 1)
         ELSE IF bs[1].parent_hash # genesis
              THEN Err(first_block_error(bs[1]))
              ELSE Ok(<<>>)

\* verify_chain(blocks)
verify_chain(bs) ==
    IF Len(bs) = 0
    THEN Ok(<<>>)
    ELSE IF bs[1].parent_hash # genesis
         THEN Err(first_block_error(bs[1]))
         ELSE verify_windows(bs, 1)

----------------------------------------------------------------------------
(* aether-ledger: storage.rs, InMemoryLedgerStorage *)

\* the error of a poisoned lock
lock_poisoned ==
    internal("ledger lock poisoned: poisoned lock: another task failed inside")

\* the key of a tenant in the map: tenant_id.to_string()
tenant_key(t) == uuid_to_string(t)

\* a push under the key of the agent instead of the tenant
entry_push_by_agent(store, block) ==
    LET key == uuid_to_string(block.agent_id)
    IN  IF key \in DOMAIN store
        THEN [store EXCEPT ![key] = Append(@, block)]
        ELSE store @@ (key :> <<block>>)

\* an insert at the front instead of a push at the back
entry_push_front(store, block) ==
    LET key == tenant_key(block.tenant_id)
    IN  IF key \in DOMAIN store
        THEN [store EXCEPT ![key] = <<block>> \o @]
        ELSE store @@ (key :> <<block>>)

\* a push that skips a block whose id the tenant already holds
entry_push_dedup(store, block) ==
    LET key == tenant_key(block.tenant_id)
    IN  IF key \in DOMAIN store
        THEN IF \E i \in 1..Len(store[key]) : store[key][i].id = block.id
             THEN store
             ELSE [store EXCEPT ![key] = Append(@, block)]
        ELSE store @@ (key :> <<block>>)

\* a push that drops a block whose parent_hash is not the hash of the head
entry_push_validating(store, block) ==
    LET key == tenant_key(block.tenant_id)
        head == IF key \in DOMAIN store /\ store[key] # <<>>
                THEN compute_block_hash(store[key][Len(store[key])])
                ELSE genesis
    IN  IF block.parent_hash # head THEN store
        ELSE IF key \in DOMAIN store
             THEN [store EXCEPT ![key] = Append(@, block)]
             ELSE store @@ (key :> <<block>>)

\* store.entry(key).or_default().push(block)
entry_push(store, block) ==
    LET key == tenant_key(block.tenant_id)
    IN  IF key \in DOMAIN store
        THEN [store EXCEPT ![key] = Append(@, block)]
        ELSE store @@ (key :> <<block>>)

\* store.get(&tenant_id.to_string()).cloned().unwrap_or_default()
store_get(store, t) ==
    IF tenant_key(t) \in DOMAIN store THEN store[tenant_key(t)] ELSE <<>>

\* blocks.iter().find(|b| b.id == *block_id)
iter_find(bs, id) ==
    LET hits == {i \in 1..Len(bs) : bs[i].id = id}
    IN  IF hits = {} THEN <<>>
        ELSE <<bs[CHOOSE i \in hits : \A j \in hits : i <= j]>>

\* get_blocks(tenant_id)
get_blocks(t) ==
    IF poisoned THEN Err(lock_poisoned) ELSE Ok(store_get(blocks, t))

\* count(tenant_id)
count(t) ==
    IF poisoned THEN Err(lock_poisoned) ELSE Ok(<<Len(store_get(blocks, t))>>)

\* get_block that searches the chain of the first tenant only
get_block_first_tenant_only(id) ==
    IF poisoned THEN {Err(lock_poisoned)}
    ELSE LET found == {k \in DOMAIN blocks \cap {tenant_key(1)} : iter_find(blocks[k], id) # <<>>}
         IN  IF found = {} THEN {Err(not_found(id))}
             ELSE {Ok(iter_find(blocks[k], id)) : k \in found}

\* get_block(block_id): the results the iteration order of store.values() allows
get_block(id) ==
    IF poisoned THEN {Err(lock_poisoned)}
    ELSE LET found == {k \in DOMAIN blocks : iter_find(blocks[k], id) # <<>>}
         IN  IF found = {} THEN {Err(not_found(id))}
             ELSE {Ok(iter_find(blocks[k], id)) : k \in found}

----------------------------------------------------------------------------
(* aether-ledger: verify.rs, LedgerVerifier *)

\* VerificationReport
VerificationReport(t, n) == [tenant_id |-> t, blocks_verified |-> n, intact |-> TRUE]

\* verify_tenant that drops the error of verify_chain
verify_tenant_swallows_error(t) ==
    LET fetched == get_blocks(t)
    IN  IF ~fetched.ok THEN fetched
        ELSE Ok(<<VerificationReport(t, Len(fetched.val))>>)

\* verify_tenant that audits an empty chain when the blocks cannot be fetched
verify_tenant_defaults_on_error(t) ==
    LET fetched == get_blocks(t)
        bs == IF fetched.ok THEN fetched.val ELSE <<>>
        checked == verify_chain(bs)
    IN  IF ~checked.ok THEN checked
        ELSE Ok(<<VerificationReport(t, Len(bs))>>)

\* verify_tenant(tenant_id)
verify_tenant(t) ==
    LET fetched == get_blocks(t)
    IN  IF ~fetched.ok THEN fetched
        ELSE LET n == Len(fetched.val)
                 checked == verify_chain(fetched.val)
             IN  IF ~checked.ok THEN checked
                 ELSE Ok(<<VerificationReport(t, n)>>)

----------------------------------------------------------------------------
(* The ledger as a state machine: callers append blocks and audit tenants *)

\* hashes the tests give to blocks: "a".repeat(64), "b".repeat(64), "bad_hash".repeat(8)
a_hash == "aaaaaaaaaaaaaaaaaaaaaaaaaaaaaaaaaaaaaaaaaaaaaaaaaaaaaaaaaaaaaaaa"
b_hash == "bbbbbbbbbbbbbbbbbbbbbbbbbbbbbbbbbbbbbbbbbbbbbbbbbbbbbbbbbbbbbbbb"
bad_hash == "bad_hashbad_hashbad_hashbad_hashbad_hashbad_hashbad_hashbad_hash"

\* make_block of the tests: a block with the given id, tenant, sequence number and parent
make_block(id, tenant, seq, parent) ==
    [id |-> id, sequence_number |-> seq, timestamp_utc |-> 0, tenant_id |-> tenant,
     agent_id |-> 1, task_id |-> 1, action |-> "ToolCall", tool_id |-> <<>>,
     input_hash |-> a_hash, output_hash |-> b_hash, parent_hash |-> parent,
     signature |-> <<>>]

\* all blocks held by a store
RECURSIVE SeqSum(_, _)
SeqSum(f, ks) ==
    IF ks = {} THEN 0
    ELSE LET k == CHOOSE x \in ks : TRUE IN Len(f[k]) + SeqSum(f, ks \ {k})
TotalBlocks == SeqSum(blocks, DOMAIN blocks)
StoredBlocks == UNION {{blocks[k][i] : i \in 1..Len(blocks[k])} : k \in DOMAIN blocks}

\* the parent hashes a caller may put in a block for tenant t: genesis, and the
\* chain-hash of the last block stored for t (a wrong literal when there is none)
ParentChoices(t) ==
    LET stored == store_get(blocks, t)
    IN  {genesis}
            \cup (IF Len(stored) = 0 THEN {bad_hash}
                  ELSE {compute_block_hash(stored[Len(stored)])})

\* an alteration: its kind, the index of the block it touches and the field it changes
Tamper(kind, index, field) == [kind |-> kind, index |-> index, field |-> field]
NoTamper == Tamper("none", 0, "")

Call(op, arg, res) == [op |-> op, arg |-> arg, res |-> res]

\* The threads that call the storage concurrently; no thread holds a guard of a fresh RwLock.
Threads == {1, 2, 3}
NoThread == 0
Unlocked == [writer |-> NoThread, readers |-> {}]
Idle == [pc |-> "idle", call |-> Call("none", 0, Ok(<<>>))]

Init ==
    /\ blocks = [k \in {} |-> <<>>]
    /\ poisoned = FALSE
    /\ ret = Call("none", 0, Ok(<<>>))
    /\ hist = [t \in TenantIds |-> <<>>]
    /\ chain = <<>>
    /\ orig = <<>>
    /\ tamper = NoTamper
    /\ lock = Unlocked
    /\ thr = [i \in Threads |-> Idle]
    /\ text = ""
    /\ builder = <<>>
    /\ manager = <<>>
    /\ said = <<>>

\* storage.append(block)
AppendBlock(block) ==
    /\ TotalBlocks < MaxBlocks
    /\ IF poisoned
       THEN /\ ret' = Call("append", block, Err(lock_poisoned))
            /\ UNCHANGED <<blocks, hist>>
       ELSE /\ blocks' = entry_push(blocks, block)
            /\ ret' = Call("append", block, Ok(<<>>))
            /\ hist' = [hist EXCEPT ![block.tenant_id] = Append(@, block)]
    /\ UNCHANGED <<poisoned, slice_vars, other_vars, session_vars>>

\* get_blocks that takes the blocks out of the map instead of cloning them
GetBlocksTaking(t) ==
    /\ ret' = Call("get_blocks", t, get_blocks(t))
    /\ blocks' = [k \in DOMAIN blocks |-> IF k = tenant_key(t) /\ ~poisoned THEN <<>> ELSE blocks[k]]
    /\ UNCHANGED <<poisoned, hist, slice_vars, other_vars, session_vars>>

\* storage.get_blocks(&t)
GetBlocks(t) ==
    /\ ret' = Call("get_blocks", t, get_blocks(t))
    /\ UNCHANGED <<store_vars, slice_vars, other_vars, session_vars>>

\* storage.get_block(&id)
GetBlock(id) ==
    /\ \E r \in get_block(id) : ret' = Call("get_block", id, r)
    /\ UNCHANGED <<store_vars, slice_vars, other_vars, session_vars>>

\* storage.count(&t)
Count(t) ==
    /\ ret' = Call("count", t, count(t))
    /\ UNCHANGED <<store_vars, slice_vars, other_vars, session_vars>>

\* verifier.verify_tenant(&t)
VerifyTenant(t) ==
    /\ ret' = Call("verify_tenant", t, verify_tenant(t))
    /\ UNCHANGED <<store_vars, slice_vars, other_vars, session_vars>>

AppendAny ==
    \E id \in BlockIds, t \in TenantIds, seq \in SeqNums :
        \E parent \in ParentChoices(t) : AppendBlock(make_block(id, t, seq, parent))
GetBlocksAny == \E t \in TenantIds : GetBlocks(t)
GetBlockAny == \E id \in BlockIds : GetBlock(id)
CountAny == \E t \in TenantIds : Count(t)
VerifyTenantAny == \E t \in TenantIds : VerifyTenant(t)

Next ==
    \/ AppendAny
    \/ GetBlocksAny
    \/ GetBlockAny
    \/ CountAny
    \/ VerifyTenantAny

Spec == Init /\ [][Next]_vars

TypeOK ==
    /\ DOMAIN blocks \subseteq {tenant_key(t) : t \in TenantIds}
    /\ ret.op \in {"none", "append", "get_blocks", "get_block", "count", "verify_tenant"}

----------------------------------------------------------------------------
(* verify_chain as a function of a slice of blocks a caller assembles *)

\* the parent hashes a caller may put in the next block of the slice: genesis, a
\* wrong literal, or the chain-hash of any block already in the slice
SliceParents ==
    {genesis, bad_hash} \cup {compute_block_hash(chain[i]) : i \in 1..Len(chain)}

\* the caller adds a block to the slice
PushBlock(block) ==
    /\ Len(chain) < MaxChain
    /\ tamper = NoTamper
    /\ chain' = Append(chain, block)
    /\ UNCHANGED <<store_vars, ret, orig, tamper, other_vars, session_vars>>

\* verify_chain(&chain)
VerifyChain ==
    /\ ret' = Call("verify_chain", chain, verify_chain(chain))
    /\ UNCHANGED <<store_vars, slice_vars, other_vars, session_vars>>

PushAny ==
    \E id \in BlockIds, seq \in SeqNums, parent \in SliceParents :
        PushBlock(make_block(id, 1, seq, parent))

\* the caller adds a linked block whose sequence number leaves a gap
SkipSeqNums == {4}

PushSkipAny ==
    \E seq \in SkipSeqNums :
        PushBlock(make_block(1, 1, seq,
                             IF chain = <<>> THEN genesis
                             ELSE compute_block_hash(chain[Len(chain)])))

NextChain ==
    \/ PushAny
    \/ VerifyChain
    \/ PushSkipAny

SpecChain == Init /\ [][NextChain]_vars

----------------------------------------------------------------------------
(* A chain that is written link by link and altered afterwards *)

\* further hashes of the tests: "c".repeat(64), "d".repeat(64)
c_hash == "cccccccccccccccccccccccccccccccccccccccccccccccccccccccccccccccc"
d_hash == "dddddddddddddddddddddddddddddddddddddddddddddddddddddddddddddddd"

\* the five fields of the canonical string, and the values an alteration may give them
ChainedFields == {"id", "sequence_number", "input_hash", "output_hash", "parent_hash"}
FieldValues(field) ==
    CASE field = "id" -> BlockIds
      [] field = "sequence_number" -> SeqNums
      [] field = "input_hash" -> {a_hash, c_hash}
      [] field = "output_hash" -> {b_hash, d_hash}
      [] field = "parent_hash" ->
             {genesis, bad_hash} \cup {compute_block_hash(chain[i]) : i \in 1..Len(chain)}

\* the writer adds the next block, linked to the last one as the contract asks
WriteBlock(id, seq) ==
    /\ Len(chain) < MaxChain
    /\ tamper = NoTamper
    /\ chain = orig
    /\ LET parent == IF Len(chain) = 0 THEN genesis
                     ELSE compute_block_hash(chain[Len(chain)])
       IN  chain' = Append(chain, make_block(id, 1, seq, parent))
    /\ orig' = chain'
    /\ UNCHANGED <<store_vars, ret, tamper, other_vars, session_vars>>

\* one chained field of the block at index i is changed to v
SetField(i, field, v) ==
    /\ tamper = NoTamper
    /\ chain = orig
    /\ chain[i][field] # v
    /\ chain' = [chain EXCEPT ![i][field] = v]
    /\ tamper' = Tamper("field", i, field)
    /\ UNCHANGED <<store_vars, ret, orig, other_vars, session_vars>>

\* the block at index i is removed
RemoveBlock(i) ==
    /\ tamper = NoTamper
    /\ chain = orig
    /\ chain' = SubSeq(chain, 1, i - 1) \o SubSeq(chain, i + 1, Len(chain))
    /\ tamper' = Tamper("remove", i, "")
    /\ UNCHANGED <<store_vars, ret, orig, other_vars, session_vars>>

\* the blocks are put in another order
Reorder(p) ==
    /\ tamper = NoTamper
    /\ chain = orig
    /\ chain' = [i \in 1..Len(chain) |-> chain[p[i]]]
    /\ chain' # chain
    /\ tamper' = Tamper("reorder", 0, "")
    /\ UNCHANGED <<store_vars, ret, orig, other_vars, session_vars>>

WriteAny == \E id \in BlockIds, seq \in SeqNums : WriteBlock(id, seq)
SetFieldAny ==
    \E i \in 1..Len(chain), field \in ChainedFields :
        \E v \in FieldValues(field) : SetField(i, field, v)
RemoveAny == \E i \in 1..Len(chain) : RemoveBlock(i)
ReorderAny == \E p \in Permutations(1..Len(chain)) : Reorder(p)

NextTamper ==
    \/ WriteAny
    \/ SetFieldAny
    \/ RemoveAny
    \/ ReorderAny
    \/ VerifyChain

SpecTamper == Init /\ [][NextTamper]_vars

----------------------------------------------------------------------------
(* Properties of verify_chain *)

\* s contains t
Contains(s, t) ==
    \E i \in 1..(Len(s) - Len(t) + 1) : SubSeq(s, i, i + Len(t) - 1) = t

\* the first block carries genesis and every block carries the chain-hash of its predecessor
Linked(bs) ==
    \/ Len(bs) = 0
    \/ /\ bs[1].parent_hash = genesis
       /\ \A i \in 2..Len(bs) : bs[i].parent_hash = compute_block_hash(bs[i - 1])

\* the adjacent pairs whose link is broken, by the index of the later block
BrokenLinks(bs) ==
    {i \in 2..Len(bs) : bs[i].parent_hash # compute_block_hash(bs[i - 1])}

Least(S) == CHOOSE i \in S : \A j \in S : i <= j

\* C1: verify_chain succeeds exactly on the empty slice and on the slices whose
\* first block carries the genesis hash and whose every later block carries the
\* chain-hash of its predecessor; a one-block slice verifies iff its parent is genesis
C1_VerifyChainIffLinked ==
    ret.op = "verify_chain" =>
        /\ ret.res.ok <=> Linked(ret.arg)
        /\ Len(ret.arg) = 1 => (ret.res.ok <=> ret.arg[1].parent_hash = genesis)

C1_Witness ==
    /\ ret.op = "verify_chain"
    /\ Len(ret.arg) = 3
    /\ ret.res.ok

\* C5: when the first block is sound and some adjacent pair is broken, verify_chain
\* fails with a chain-integrity violation whose block id is the id of curr, the
\* later block of the first broken pair, and whose reason carries curr's sequence
\* number, the chain-hash of prev as the expected hash and curr's parent_hash as
\* the hash found
C5_MismatchCitesCurr ==
    (/\ ret.op = "verify_chain"
     /\ Len(ret.arg) >= 2
     /\ ret.arg[1].parent_hash = genesis
     /\ BrokenLinks(ret.arg) # {}) =>
        LET curr == ret.arg[Least(BrokenLinks(ret.arg))]
            prev == ret.arg[Least(BrokenLinks(ret.arg)) - 1]
        IN  /\ ~ret.res.ok
            /\ ret.res.err.kind = "LedgerIntegrityViolation"
            /\ ret.res.err.block_id = uuid_to_string(curr.id)
            /\ Contains(ret.res.err.reason,
                        "seq " \o u64_to_string(curr.sequence_number) \o ":")
            /\ Contains(ret.res.err.reason, "expected " \o compute_block_hash(prev) \o ",")
            /\ Contains(ret.res.err.reason, "got " \o curr.parent_hash)

C5_Witness ==
    /\ ret.op = "verify_chain"
    /\ Len(ret.arg) = 2
    /\ ret.arg[1].parent_hash = genesis
    /\ ret.arg[2].parent_hash # compute_block_hash(ret.arg[1])
    /\ ret.arg[1].id # ret.arg[2].id
    /\ ret.arg[1].sequence_number # ret.arg[2].sequence_number
    /\ ~ret.res.ok

\* C6: when the first block of a non-empty slice does not carry the genesis hash,
\* verify_chain fails with a chain-integrity violation that includes that block's
\* id, its sequence number, the expected hash (genesis) and the parent_hash found
C6_FirstBlockErrorComplete ==
    (/\ ret.op = "verify_chain"
     /\ Len(ret.arg) >= 1
     /\ ret.arg[1].parent_hash # genesis) =>
        /\ ~ret.res.ok
        /\ ret.res.err.kind = "LedgerIntegrityViolation"
        /\ ret.res.err.block_id = uuid_to_string(ret.arg[1].id)
        /\ Contains(ret.res.err.reason, u64_to_string(ret.arg[1].sequence_number))
        /\ Contains(ret.res.err.reason, genesis)
        /\ Contains(ret.res.err.reason, ret.arg[1].parent_hash)

----------------------------------------------------------------------------
(* Properties of the storage and of verify_tenant *)

\* the number of times block b occurs in bs
Occurrences(bs, b) == Cardinality({i \in 1..Len(bs) : bs[i] = b})

\* bs and cs hold the same blocks, each as many times
SameBlocks(bs, cs) ==
    /\ Len(bs) = Len(cs)
    /\ \A i \in 1..Len(bs) : Occurrences(bs, bs[i]) = Occurrences(cs, bs[i])

\* sequence numbers do not decrease along bs
Ascending(bs) ==
    \A i \in 1..Len(bs), j \in 1..Len(bs) :
        i < j => bs[i].sequence_number <= bs[j].sequence_number

\* what an audit of a tenant whose appends were bs, and nothing else, returns
AuditOf(t, bs) ==
    IF verify_chain(bs).ok
    THEN Ok(<<[tenant_id |-> t, blocks_verified |-> Len(bs), intact |-> TRUE]>>)
    ELSE verify_chain(bs)

\* C2: if every block appended for tenant T followed the ordering contract (the
\* first carries genesis, each later one the chain-hash of the block appended for
\* T just before it), then verify_tenant(T) returns a report with blocks_verified
\* equal to the number of appends made for T and intact = TRUE, whatever was
\* appended for other tenants in between
C2_ContractImpliesIntact ==
    (ret.op = "verify_tenant" /\ Linked(hist[ret.arg])) =>
        ret.res = Ok(<<[tenant_id |-> ret.arg,
                        blocks_verified |-> Len(hist[ret.arg]),
                        intact |-> TRUE]>>)

C2_Witness ==
    /\ ret.op = "verify_tenant"
    /\ Len(hist[ret.arg]) = 2
    /\ Linked(hist[ret.arg])
    /\ \E t \in TenantIds : t # ret.arg /\ Len(hist[t]) = 1
    /\ ret.res.ok

\* C3: tenant isolation.  Every block stored under a tenant's key belongs to that
\* tenant; get_blocks(T) returns only blocks of T, count(T) counts only those, and
\* the results of get_blocks(T), count(T) and verify_tenant(T) are functions of the
\* appends made for T alone (so a tenant with no appends has count 0 and no
\* blocks, and two runs that differ only in other tenants' appends agree on them)
C3_TenantIsolation ==
    /\ \A k \in DOMAIN blocks : \A i \in 1..Len(blocks[k]) :
           tenant_key(blocks[k][i].tenant_id) = k
    /\ ret.op = "get_blocks" =>
           /\ \A i \in 1..Len(ret.res.val) : ret.res.val[i].tenant_id = ret.arg
           /\ ret.res = Ok(hist[ret.arg])
    /\ ret.op = "count" => ret.res = Ok(<<Len(hist[ret.arg])>>)
    /\ ret.op = "verify_tenant" => ret.res = AuditOf(ret.arg, hist[ret.arg])

C3_Witness ==
    /\ ret.op = "count"
    /\ ret.res = Ok(<<0>>)
    /\ \E t \in TenantIds : Len(hist[t]) = 2

\* C7: verify_tenant returns a report only when the tenant's stored chain
\* verifies; the report has intact = TRUE, the requested tenant and the number of
\* blocks stored for it (0 when there are none).  A broken chain gives a
\* chain-integrity error and no report
C7_ReportOnlyWhenIntact ==
    ret.op = "verify_tenant" =>
        LET stored == store_get(blocks, ret.arg)
        IN  /\ ret.res.ok =>
                /\ Linked(stored)
                /\ ret.res.val = <<[tenant_id |-> ret.arg,
                                    blocks_verified |-> Len(stored),
                                    intact |-> TRUE]>>
            /\ ~Linked(stored) =>
                /\ ~ret.res.ok
                /\ ret.res.val = <<>>
                /\ ret.res.err.kind = "LedgerIntegrityViolation"

C7_Witness ==
    /\ ret.op = "verify_tenant"
    /\ Len(store_get(blocks, ret.arg)) = 2
    /\ ~Linked(store_get(blocks, ret.arg))
    /\ ~ret.res.ok

\* C8: after block 1 (parent genesis) and block 2 (parent other than the
\* chain-hash of block 1) are appended for T, verify_tenant(T) fails with a
\* chain-integrity violation whose block id is the id of block 2
C8_BrokenSecondBlockCited ==
    (/\ ret.op = "verify_tenant"
     /\ Len(hist[ret.arg]) = 2
     /\ hist[ret.arg][1].parent_hash = genesis
     /\ hist[ret.arg][2].parent_hash # compute_block_hash(hist[ret.arg][1])) =>
        /\ ~ret.res.ok
        /\ ret.res.err.kind = "LedgerIntegrityViolation"
        /\ ret.res.err.block_id = uuid_to_string(hist[ret.arg][2].id)

C8_Witness ==
    /\ ret.op = "verify_tenant"
    /\ Len(hist[ret.arg]) = 2
    /\ hist[ret.arg][1].parent_hash = genesis
    /\ hist[ret.arg][2].parent_hash = genesis
    /\ hist[ret.arg][1].id # hist[ret.arg][2].id
    /\ ~ret.res.ok

\* C9 as stated: after any appends, get_blocks(T) returns all of T's blocks in
\* ascending sequence-number order
C9_GetBlocksAscending ==
    ret.op = "get_blocks" =>
        /\ ret.res.ok
        /\ SameBlocks(ret.res.val, hist[ret.arg])
        /\ Ascending(ret.res.val)

\* C9 amended: get_blocks(T) returns all of T's blocks, and in ascending
\* sequence-number order when the appends for T were made in ascending
\* sequence-number order
C9_GetBlocksAscendingIfAppendedSo ==
    ret.op = "get_blocks" =>
        /\ ret.res.ok
        /\ SameBlocks(ret.res.val, hist[ret.arg])
        /\ Ascending(hist[ret.arg]) => Ascending(ret.res.val)

C9_Witness ==
    /\ ret.op = "get_blocks"
    /\ Len(ret.res.val) = 2
    /\ ret.res.val[1].sequence_number < ret.res.val[2].sequence_number
    /\ Ascending(hist[ret.arg])

\* the blocks of the store with the given id
StoredWithId(id) == {b \in StoredBlocks : b.id = id}

\* in every state count(T) is the length of get_blocks(T) and the number of
\* successful appends made for T, and the block of a successful append is among
\* get_blocks of its tenant
AppendsCounted ==
    /\ \A t \in TenantIds :
           /\ count(t) = Ok(<<Len(hist[t])>>)
           /\ get_blocks(t).ok
           /\ Len(get_blocks(t).val) = Len(hist[t])
    /\ (ret.op = "append" /\ ret.res.ok) =>
           \E i \in 1..Len(get_blocks(ret.arg.tenant_id).val) :
               get_blocks(ret.arg.tenant_id).val[i] = ret.arg

\* C10 as stated: no append is dropped (count(T) = length of get_blocks(T) = number
\* of successful appends for T; the appended block is in get_blocks of its tenant)
\* and get_block(block.id) returns the appended block
C10_AppendStoresBlock ==
    /\ AppendsCounted
    /\ (ret.op = "append" /\ ret.res.ok) =>
           \A r \in get_block(ret.arg.id) : r = Ok(<<ret.arg>>)

\* C10 amended: as above, but get_block(block.id) returns a stored block with that
\* id, which is the appended block when no other stored block has the id
C10_AppendStoresBlockUniqueId ==
    /\ AppendsCounted
    /\ (ret.op = "append" /\ ret.res.ok) =>
           \A r \in get_block(ret.arg.id) :
               /\ r.ok
               /\ r.val[1].id = ret.arg.id
               /\ StoredWithId(ret.arg.id) = {ret.arg} => r = Ok(<<ret.arg>>)

C10_Witness ==
    /\ ret.op = "append"
    /\ ret.res.ok
    /\ Len(hist[ret.arg.tenant_id]) = 2
    /\ StoredWithId(ret.arg.id) = {ret.arg}
    /\ count(ret.arg.tenant_id) = Ok(<<2>>)

----------------------------------------------------------------------------
(* Tamper evidence *)

\* the slice was written as a sound chain, has been altered, and verify_chain has
\* been run on the altered slice
AlteredAndVerified ==
    /\ tamper # NoTamper
    /\ verify_chain(orig).ok
    /\ ret.op = "verify_chain"
    /\ ret.arg = chain

\* the alterations that leave a broken link behind: a reordering, the removal of a
\* block that has a successor, a change of a parent_hash, and a change of another
\* chained field of a block that has a successor
BreaksLink ==
    \/ tamper.kind = "reorder"
    \/ tamper.kind = "remove" /\ tamper.index < Len(orig)
    \/ tamper.kind = "field" /\ tamper.field = "parent_hash"
    \/ tamper.kind = "field" /\ tamper.index < Len(orig)

\* C4 as stated: after any alteration of a chain that verified when it was
\* written (a chained field of any block changed, any block removed, the blocks
\* reordered) verify_chain fails
C4_AnyAlterationDetected ==
    AlteredAndVerified => ~ret.res.ok

\* C4 amended: verify_chain fails after a reordering, after the removal of a block
\* that has a successor, after a change of any block's parent_hash and after a
\* change of id, sequence_number, input_hash or output_hash of a block that has a
\* successor
C4_LinkBreakingAlterationDetected ==
    (AlteredAndVerified /\ BreaksLink) => ~ret.res.ok

C4_Witness ==
    /\ AlteredAndVerified
    /\ tamper = Tamper("field", 2, "output_hash")
    /\ Len(orig) = 3
    /\ ~ret.res.ok

----------------------------------------------------------------------------
(* The store with a lock that gets poisoned: a writer panics inside append
   while it holds the write guard, and every later lock() / read() / write()
   returns the PoisonError that the storage maps to an AetherError *)

\* store.entry(key).or_default(): the key is in the map before the push runs
entry_or_default(store, block) ==
    LET key == tenant_key(block.tenant_id)
    IN  IF key \in DOMAIN store THEN store ELSE store @@ (key :> <<>>)

\* what a caller sees of a call that unwound
Panicked == [kind |-> "Panic", block_id |-> "", reason |-> "capacity overflow"]

\* storage.append(block) panicking in push() with the write guard held
AppendPanics(block) ==
    /\ ~poisoned
    /\ blocks' = entry_or_default(blocks, block)
    /\ poisoned' = TRUE
    /\ ret' = Call("panic", block, Err(Panicked))
    /\ UNCHANGED <<hist, slice_vars, other_vars, session_vars>>

\* the blocks the callers of this store append: first blocks, as make_block of the storage tests
FirstBlocks == {make_block(id, t, 1, genesis) : id \in BlockIds, t \in TenantIds}

AppendFirstAny == \E block \in FirstBlocks : AppendBlock(block)

PanicAny == \E block \in FirstBlocks : AppendPanics(block)

NextPoison ==
    \/ AppendFirstAny
    \/ GetBlocksAny
    \/ GetBlockAny
    \/ CountAny
    \/ VerifyTenantAny
    \/ PanicAny

SpecPoison == Init /\ [][NextPoison]_vars

StorageOps == {"append", "get_blocks", "get_block", "count"}

\* C11: with the lock of the store poisoned, append, get_blocks, get_block and
\* count each fail, the failure is an error of the storage-failure kind, and the
\* store holds exactly the blocks of the successful appends.
C11_PoisonedLockIsStorageError ==
    (poisoned /\ ret.op \in StorageOps) =>
        /\ ~ret.res.ok
        /\ ret.res.err.kind = "StorageError"
        /\ \A t \in TenantIds : store_get(blocks, t) = hist[t]

\* C12: when get_blocks fails, verify_tenant returns exactly the error of
\* get_blocks, whatever the stored chain looks like, and returns no report.
C12_VerifyTenantPropagatesStorageError ==
    (ret.op = "verify_tenant" /\ ~get_blocks(ret.arg).ok) =>
        /\ ret.res = get_blocks(ret.arg)
        /\ ~ret.res.ok
        /\ ret.res.val = <<>>
        /\ ret.res.err.kind # "LedgerIntegrityViolation"

\* a tenant with a broken stored chain is audited behind a poisoned lock
C12_Witness ==
    /\ poisoned
    /\ ret.op = "verify_tenant"
    /\ Len(hist[ret.arg]) >= 2
    /\ ~Linked(hist[ret.arg])
    /\ ret.res = Err(lock_poisoned)

\* each storage operation has been called behind a poisoned lock
C11_Reached ==
    /\ poisoned
    /\ ret.op = "append"
    /\ TotalBlocks >= 1

----------------------------------------------------------------------------
(* Lookup by id and the append-only store *)

\* C13: get_block(id) returns a stored block whose id is id, whichever tenant it
\* was appended for; it fails, with a not-found error, exactly when no stored
\* block of any tenant has that id; the call leaves the store as it was.
C13_GetBlockAcrossTenants ==
    /\ [](ret.op = "get_block" =>
            /\ ret.res.ok =>
                 /\ Len(ret.res.val) = 1
                 /\ ret.res.val[1].id = ret.arg
                 /\ ret.res.val[1] \in StoredBlocks
            /\ ~ret.res.ok <=> StoredWithId(ret.arg) = {}
            /\ ~ret.res.ok => ret.res.err = not_found(ret.arg))
    /\ [][ret'.op = "get_block" => blocks' = blocks]_vars

\* a block of the second tenant is found by id while the first tenant holds
\* blocks of other ids only
C13_Witness ==
    /\ ret.op = "get_block"
    /\ ret.res.ok
    /\ ret.res.val[1].tenant_id = 2
    /\ hist[1] # <<>>
    /\ \A i \in 1..Len(hist[1]) : hist[1][i].id # ret.arg

\* bs is an initial part of cs
IsPrefix(bs, cs) ==
    /\ Len(bs) <= Len(cs)
    /\ \A i \in 1..Len(bs) : bs[i] = cs[i]

\* C14: the store only grows at the end: over every step, what get_blocks(T)
\* returned before is an initial part of what it returns after, and in every
\* state get_blocks(T) is the blocks appended for T, each once per append, in
\* the order of the appends.
C14_AppendOnly ==
    /\ [][\A t \in TenantIds :
            IsPrefix(store_get(blocks, t), store_get(blocks', t))]_vars
    /\ [](\A t \in TenantIds : get_blocks(t) = Ok(hist[t]))

\* get_blocks returns a chain that holds the same block twice, as appended
C14_Witness ==
    /\ ret.op = "get_blocks"
    /\ ret.res.ok
    /\ Len(ret.res.val) = MaxBlocks
    /\ ret.res.val[1] = ret.res.val[2]
    /\ ret.res.val[3] # ret.res.val[2]

\* C15: append validates nothing: whatever the block, it returns Ok and the
\* block is the last of its tenant's stored chain; a chain-integrity violation
\* is returned by verify_tenant only, which fails for a tenant whose stored
\* chain has a broken link.
C15_AppendValidatesNothing ==
    /\ ret.op = "append" =>
         LET bs == store_get(blocks, ret.arg.tenant_id)
         IN  /\ ret.res.ok
             /\ bs # <<>>
             /\ bs[Len(bs)] = ret.arg
    /\ (~ret.res.ok /\ ret.res.err.kind = "LedgerIntegrityViolation") =>
         ret.op = "verify_tenant"
    /\ \A t \in TenantIds :
         ~Linked(store_get(blocks, t)) =>
             /\ ~verify_tenant(t).ok
             /\ verify_tenant(t).err.kind = "LedgerIntegrityViolation"

\* the appended block repeats a stored id, does not raise the sequence number
\* and names a parent that is not the head
C15_Witness ==
    /\ ret.op = "append"
    /\ ret.res.ok
    /\ LET bs == store_get(blocks, ret.arg.tenant_id)
           n == Len(bs)
       IN  /\ n >= 2
           /\ bs[n] = ret.arg
           /\ bs[n].sequence_number <= bs[n - 1].sequence_number
           /\ bs[n].parent_hash # compute_block_hash(bs[n - 1])
           /\ \E i \in 1..(n - 1) : bs[i].id = bs[n].id

----------------------------------------------------------------------------
(* The store called from several threads at once: each call takes a guard of
   the RwLock around the map, works on the map and drops the guard when it
   returns.  write() waits until no guard is held; read() waits until no
   write guard is held. *)

\* the result field of a call that has not returned
Running == [ok |-> FALSE, val |-> <<>>, err |-> NoError]

ReadOps == {"get_blocks", "get_block", "count"}

\* append taking self.blocks.read()
append_guard_shared == "read"

\* the guard append takes: self.blocks.write()
append_guard == "write"

\* the guard each operation takes
guard_of(op) == IF op = "append" THEN append_guard ELSE "read"

\* a thread enters a call
BeginCall(i, op, arg) ==
    /\ thr[i].pc = "idle"
    /\ thr' = [thr EXCEPT ![i] = [pc |-> "waiting", call |-> Call(op, arg, Running)]]
    /\ UNCHANGED <<store_vars, ret, slice_vars, lock, text, builder, session_vars>>

\* self.blocks.write() returns the guard, or the error of a poisoned lock
AcquireWrite(i) ==
    /\ thr[i].pc = "waiting"
    /\ guard_of(thr[i].call.op) = "write"
    /\ lock.writer = NoThread
    /\ lock.readers = {}
    /\ IF poisoned
       THEN /\ thr' = [thr EXCEPT ![i].pc = "done", ![i].call.res = Err(lock_poisoned)]
            /\ UNCHANGED lock
       ELSE /\ thr' = [thr EXCEPT ![i].pc = "locked"]
            /\ lock' = [lock EXCEPT !.writer = i]
    /\ UNCHANGED <<store_vars, ret, slice_vars, text, builder, session_vars>>

\* self.blocks.read() returns the guard, or the error of a poisoned lock
AcquireRead(i) ==
    /\ thr[i].pc = "waiting"
    /\ guard_of(thr[i].call.op) = "read"
    /\ lock.writer = NoThread
    /\ IF poisoned
       THEN /\ thr' = [thr EXCEPT ![i].pc = "done", ![i].call.res = Err(lock_poisoned)]
            /\ UNCHANGED lock
       ELSE /\ thr' = [thr EXCEPT ![i].pc = "locked"]
            /\ lock' = [lock EXCEPT !.readers = @ \cup {i}]
    /\ UNCHANGED <<store_vars, ret, slice_vars, text, builder, session_vars>>

\* the guard of thread i goes out of scope
drop_guard(l, i) ==
    [writer |-> IF l.writer = i THEN NoThread ELSE l.writer, readers |-> l.readers \ {i}]

\* append: store.entry(key).or_default()
EntryOrDefault(i) ==
    /\ thr[i].pc = "locked"
    /\ thr[i].call.op = "append"
    /\ blocks' = entry_or_default(blocks, thr[i].call.arg)
    /\ thr' = [thr EXCEPT ![i].pc = "entered"]
    /\ UNCHANGED <<poisoned, hist, ret, slice_vars, lock, text, builder, session_vars>>

\* append: .push(block)
Push(i) ==
    /\ thr[i].pc = "entered"
    /\ blocks' = entry_push(blocks, thr[i].call.arg)
    /\ thr' = [thr EXCEPT ![i].pc = "pushed"]
    /\ UNCHANGED <<poisoned, hist, ret, slice_vars, lock, text, builder, session_vars>>

\* append: Ok(()), the guard is dropped
ReturnAppend(i) ==
    /\ thr[i].pc = "pushed"
    /\ thr' = [thr EXCEPT ![i].pc = "done", ![i].call.res = Ok(<<>>)]
    /\ hist' = [hist EXCEPT ![thr[i].call.arg.tenant_id] = Append(@, thr[i].call.arg)]
    /\ lock' = drop_guard(lock, i)
    /\ UNCHANGED <<blocks, poisoned, ret, slice_vars, text, builder, session_vars>>

\* get_blocks, get_block, count: the result is taken from the map under the guard
ReadStore(i) ==
    /\ thr[i].pc = "locked"
    /\ thr[i].call.op \in ReadOps
    /\ \E r \in (CASE thr[i].call.op = "get_blocks" -> {Ok(store_get(blocks, thr[i].call.arg))}
                   [] thr[i].call.op = "count" -> {Ok(<<Len(store_get(blocks, thr[i].call.arg))>>)}
                   [] thr[i].call.op = "get_block" -> get_block(thr[i].call.arg)) :
          thr' = [thr EXCEPT ![i].pc = "read", ![i].call.res = r]
    /\ UNCHANGED <<store_vars, ret, slice_vars, lock, text, builder, session_vars>>

\* get_blocks, get_block, count: the result is returned, the guard is dropped
ReturnRead(i) ==
    /\ thr[i].pc = "read"
    /\ thr' = [thr EXCEPT ![i].pc = "done"]
    /\ lock' = drop_guard(lock, i)
    /\ UNCHANGED <<store_vars, ret, slice_vars, text, builder, session_vars>>

BeginAppendAny == \E i \in Threads, block \in FirstBlocks : BeginCall(i, "append", block)
BeginGetBlocksAny == \E i \in Threads, t \in TenantIds : BeginCall(i, "get_blocks", t)
BeginGetBlockAny == \E i \in Threads, id \in BlockIds : BeginCall(i, "get_block", id)
BeginCountAny == \E i \in Threads, t \in TenantIds : BeginCall(i, "count", t)

NextThreads ==
    \/ BeginAppendAny
    \/ BeginGetBlocksAny
    \/ BeginGetBlockAny
    \/ BeginCountAny
    \/ \E i \in Threads : AcquireWrite(i)
    \/ \E i \in Threads : AcquireRead(i)
    \/ \E i \in Threads : EntryOrDefault(i)
    \/ \E i \in Threads : Push(i)
    \/ \E i \in Threads : ReturnAppend(i)
    \/ \E i \in Threads : ReadStore(i)
    \/ \E i \in Threads : ReturnRead(i)

SpecThreads == Init /\ [][NextThreads]_vars

\* the threads inside append, between taking the guard and returning
Appending == {i \in Threads : thr[i].call.op = "append" /\ thr[i].pc \in {"locked", "entered", "pushed"}}

\* the threads inside a read operation with the guard held
Reading == {i \in Threads : thr[i].call.op \in ReadOps /\ thr[i].pc \in {"locked", "read"}}

\* the appends that have returned Ok
AppendsReturned == {i \in Threads : thr[i].call.op = "append" /\ thr[i].pc = "done" /\ thr[i].call.res.ok}

\* C16: a thread inside append holds the lock alone, the reading operations may
\* hold it together; a read returns the blocks of the appends that had returned
\* when it took the lock and nothing of an append in progress; once every call
\* has returned, the store holds exactly the blocks of the successful appends.
C16_WritersExclusiveReadersShared ==
    /\ \A i \in Appending :
           lock = [writer |-> i, readers |-> {}] /\ Appending = {i} /\ Reading = {}
    /\ \A i \in Reading : lock.writer = NoThread /\ i \in lock.readers
    /\ \A i \in Threads :
           (thr[i].pc = "read" /\ thr[i].call.op = "get_blocks") =>
               thr[i].call.res = Ok(hist[thr[i].call.arg])
    /\ \A i \in Threads :
           (thr[i].pc = "read" /\ thr[i].call.op = "count") =>
               thr[i].call.res = Ok(<<Len(hist[thr[i].call.arg])>>)
    /\ \A i \in Threads :
           (thr[i].pc = "done" /\ thr[i].call.op = "get_blocks") =>
               thr[i].call.res.ok /\ IsPrefix(thr[i].call.res.val, hist[thr[i].call.arg])
    /\ (\A i \in Threads : thr[i].pc = "done") =>
           /\ TotalBlocks = Cardinality(AppendsReturned)
           /\ \A t \in TenantIds : store_get(blocks, t) = hist[t]

\* two appends for one tenant and a get_blocks of that tenant have all returned,
\* and the get_blocks saw the block of the first append only
C16_Witness ==
    /\ \A i \in Threads : thr[i].pc = "done"
    /\ Cardinality(AppendsReturned) = 2
    /\ \E i \in Threads, t \in TenantIds :
           /\ thr[i].call.op = "get_blocks"
           /\ thr[i].call.arg = t
           /\ Len(hist[t]) = 2
           /\ Len(thr[i].call.res.val) = 1

\* two reading operations hold the lock at once
C16_SharedReached == Cardinality(lock.readers) >= 2

----------------------------------------------------------------------------
(* canonical_string and compute_block_hash of two blocks side by side.  The
   fields of LedgerBlock are public and BlockHash wraps any String, so the
   blocks carry hashes of the tests ("a".repeat(64), genesis, ...) as well as
   short strings, with and without the delimiter. *)

InputHashes == {a_hash, "a", "a|b"}
OutputHashes == {b_hash, "c", "b|c"}
ParentHashes == {genesis, bad_hash}

\* the fields that canonical_string does not read, in two assignments that
\* differ in every one of them
OtherFields ==
    {[timestamp_utc |-> 0, tenant_id |-> 1, agent_id |-> 1, task_id |-> 1,
      action |-> "ToolCall", tool_id |-> <<>>, signature |-> <<>>],
     [timestamp_utc |-> 1, tenant_id |-> 2, agent_id |-> 2, task_id |-> 2,
      action |-> "MemoryWrite", tool_id |-> <<1>>, signature |-> <<"sig">>]}

\* LedgerBlock { .. }: a block given field by field
LedgerBlock(id, seq, input, output, parent, rest) ==
    [id |-> id, sequence_number |-> seq, timestamp_utc |-> rest.timestamp_utc,
     tenant_id |-> rest.tenant_id, agent_id |-> rest.agent_id, task_id |-> rest.task_id,
     action |-> rest.action, tool_id |-> rest.tool_id,
     input_hash |-> input, output_hash |-> output, parent_hash |-> parent,
     signature |-> rest.signature]

AnyBlocks ==
    {LedgerBlock(id, seq, input, output, parent, rest) :
        id \in BlockIds, seq \in SeqNums, input \in InputHashes,
        output \in OutputHashes, parent \in ParentHashes, rest \in OtherFields}

\* two blocks are at hand
TakeBlocks(b1, b2) ==
    /\ chain = <<>>
    /\ chain' = <<b1, b2>>
    /\ UNCHANGED <<store_vars, ret, orig, tamper, other_vars, session_vars>>

\* b.canonical_string() and compute_block_hash(&b) of each block at hand
CanonicalStrings ==
    /\ chain # <<>>
    /\ ret' = Call("canonical_string", chain,
                   Ok([i \in 1..Len(chain) |->
                        [canonical |-> canonical_string(chain[i]),
                         hash |-> compute_block_hash(chain[i])]]))
    /\ UNCHANGED <<store_vars, slice_vars, other_vars, session_vars>>

TakeAny ==
    /\ chain = <<>>
    /\ \E b1 \in AnyBlocks, b2 \in AnyBlocks : TakeBlocks(b1, b2)

NextCanonical ==
    \/ TakeAny
    \/ CanonicalStrings

SpecCanonical == Init /\ [][NextCanonical]_vars

\* the five fields in the order of the format, as they are printed
ChainedText(b) ==
    <<uuid_to_string(b.id), u64_to_string(b.sequence_number),
      b.input_hash, b.output_hash, b.parent_hash>>

\* the strings of ss with d between neighbours
RECURSIVE Join(_, _)
Join(ss, d) ==
    IF Len(ss) = 0 THEN ""
    ELSE IF Len(ss) = 1 THEN ss[1]
    ELSE ss[1] \o d \o Join(Tail(ss), d)

\* the chained fields in which two blocks differ
DifferIn(b1, b2) == {f \in ChainedFields : b1[f] # b2[f]}

PipeFree(b) ==
    /\ ~Contains(b.input_hash, "|")
    /\ ~Contains(b.output_hash, "|")
    /\ ~Contains(b.parent_hash, "|")

\* the canonical string is the five fields joined by "|", and blocks that
\* agree on the five have the same canonical string and the same hash
CanonicalOfFiveFields(b1, b2, r1, r2) ==
    /\ r1.canonical = Join(ChainedText(b1), "|")
    /\ r2.canonical = Join(ChainedText(b2), "|")
    /\ DifferIn(b1, b2) = {} => (r1.canonical = r2.canonical /\ r1.hash = r2.hash)

\* C17 (as stated): the canonical string is the five fields joined by "|";
\* blocks that agree on the five have the same canonical string and hash
\* whatever their other fields; blocks that differ in one of the five have
\* different canonical strings.
C17_CanonicalStringInjective ==
    ret.op = "canonical_string" =>
        LET b1 == ret.arg[1]
            b2 == ret.arg[2]
            r1 == ret.res.val[1]
            r2 == ret.res.val[2]
        IN  /\ CanonicalOfFiveFields(b1, b2, r1, r2)
            /\ DifferIn(b1, b2) # {} => r1.canonical # r2.canonical

\* C17 (amended): as above, but blocks that differ in the five fields have
\* different canonical strings when they differ in exactly one field, or when
\* no hash field of either holds the delimiter "|".
C17_CanonicalStringInjectivePipeFree ==
    ret.op = "canonical_string" =>
        LET b1 == ret.arg[1]
            b2 == ret.arg[2]
            r1 == ret.res.val[1]
            r2 == ret.res.val[2]
        IN  /\ CanonicalOfFiveFields(b1, b2, r1, r2)
            /\ Cardinality(DifferIn(b1, b2)) = 1 => r1.canonical # r2.canonical
            /\ (DifferIn(b1, b2) # {} /\ r1.canonical = r2.canonical) =>
                   ~(PipeFree(b1) /\ PipeFree(b2))

\* two blocks with delimiter-free hashes differ in input_hash and output_hash
\* and in nothing else
C17_Witness ==
    /\ ret.op = "canonical_string"
    /\ PipeFree(ret.arg[1]) /\ PipeFree(ret.arg[2])
    /\ DifferIn(ret.arg[1], ret.arg[2]) = {"input_hash", "output_hash"}
    /\ ret.arg[1].tenant_id = ret.arg[2].tenant_id
    /\ ret.res.val[1].canonical # ret.res.val[2].canonical

\* two blocks agree on the five fields and differ in every other field
C17_SameFiveReached ==
    /\ ret.op = "canonical_string"
    /\ DifferIn(ret.arg[1], ret.arg[2]) = {}
    /\ ret.arg[1].tenant_id # ret.arg[2].tenant_id
    /\ ret.res.val[1] = ret.res.val[2]

----------------------------------------------------------------------------
(* BlockHash::is_valid on strings of any length and content: a BlockHash is
   made from any String, here from pieces of hexadecimal and other text *)

\* pieces of text: 16 digits in lower case, in upper case, of zeros, 16
\* characters of "bad_hash".repeat(8), 8 letters of two bytes each, and 15
\* and 17 digits
Pieces ==
    {"0123456789abcdef", "0123456789ABCDEF", "0000000000000000",
     "bad_hashbad_hash", "éééééééé", "0123456789abcde", "0123456789abcdef0"}

\* the strings the tests make a BlockHash of: genesis and "short"
TestHashes == {genesis, "short"}

\* BlockHash(s) for a string of the tests
NewHash(s) ==
    /\ text = ""
    /\ text' = s
    /\ UNCHANGED <<store_vars, ret, slice_vars, thread_vars, builder, session_vars>>

\* the string grows by a piece
PushText(piece) ==
    /\ Len(text) + Len(piece) <= MaxText
    /\ text' = text \o piece
    /\ UNCHANGED <<store_vars, ret, slice_vars, thread_vars, builder, session_vars>>

\* BlockHash(text).is_valid()
IsValid ==
    /\ ret' = Call("is_valid", text, Ok(<<is_valid(text)>>))
    /\ UNCHANGED <<store_vars, slice_vars, other_vars, session_vars>>

NewHashAny == \E s \in TestHashes : NewHash(s)

PushTextAny == \E piece \in Pieces : PushText(piece)

NextHash ==
    \/ NewHashAny
    \/ PushTextAny
    \/ IsValid

SpecHash == Init /\ [][NextHash]_vars

HexDigits ==
    {"0", "1", "2", "3", "4", "5", "6", "7", "8", "9",
     "a", "b", "c", "d", "e", "f", "A", "B", "C", "D", "E", "F"}

\* C18: is_valid() holds exactly of the strings of 64 characters that are all
\* hexadecimal digits; genesis() is 64 characters '0' and is_valid() holds of it.
C18_IsValidIffHex64 ==
    /\ ret.op = "is_valid" =>
         (ret.res.val[1] <=>
            /\ Len(ret.arg) = 64
            /\ \A i \in 1..Len(ret.arg) : SubSeq(ret.arg, i, i) \in HexDigits)
    /\ Len(genesis) = 64
    /\ \A i \in 1..Len(genesis) : SubSeq(genesis, i, i) = "0"
    /\ is_valid(genesis)

\* is_valid() held of a string of 64 digits in both cases that is not genesis
C18_Witness ==
    /\ ret.op = "is_valid"
    /\ ret.res.val[1]
    /\ ret.arg # genesis
    /\ Contains(ret.arg, "ABCDEF") /\ Contains(ret.arg, "abcdef")

\* is_valid() did not hold of strings of 64 bytes or 64 characters that are not
\* all hexadecimal digits, nor of 63 or 65 digits
C18_InvalidReached ==
    /\ ret.op = "is_valid"
    /\ ~ret.res.val[1]
    /\ \/ (str_len(ret.arg) = 64 /\ Len(ret.arg) < 64)
       \/ (Len(ret.arg) = 64 /\ Contains(ret.arg, "bad_hash"))
       \/ (Len(ret.arg) = 65 /\ \A i \in 1..65 : SubSeq(ret.arg, i, i) \in HexDigits)

----------------------------------------------------------------------------
(* aether-ledger: block.rs, LedgerBlockBuilder *)

\* serde_json::Value: Null, or an object as the list of its members in the
\* order of its map
JsonNull == [null |-> TRUE, members |-> <<>>]
JsonObject(members) == [null |-> FALSE, members |-> members]

\* the members of an object as serde_json writes them: "key":"value", ...
RECURSIVE members_to_string(_)
members_to_string(ms) ==
    IF Len(ms) = 0 THEN ""
    ELSE "\"" \o ms[1][1] \o "\":\"" \o ms[1][2] \o "\""
         \o (IF Len(ms) = 1 THEN "" ELSE "," \o members_to_string(Tail(ms)))

\* serde_json::to_vec(value)
to_vec(value) ==
    IF value.null THEN "null" ELSE "{" \o members_to_string(value.members) \o "}"

\* a digest of the keys of the payload only
hash_value_keys_only(value) ==
    Sha256Hex(to_vec([value EXCEPT !.members =
                         [i \in 1..Len(value.members) |-> <<value.members[i][1], "">>]]))

\* hash_value(value)
hash_value(value) == Sha256Hex(to_vec(value))

\* LedgerBlockBuilder::new
builder_new(tenant_id, agent_id, task_id, action, parent_hash, sequence_number) ==
    [tenant_id |-> tenant_id, agent_id |-> agent_id, task_id |-> task_id,
     action |-> action, tool_id |-> <<>>, input |-> JsonNull, output |-> JsonNull,
     parent_hash |-> parent_hash, sequence_number |-> sequence_number]

\* LedgerBlockBuilder::build, with the fresh id and the time of the call
builder_build(self, id, now) ==
    [id |-> id, sequence_number |-> self.sequence_number, timestamp_utc |-> now,
     tenant_id |-> self.tenant_id, agent_id |-> self.agent_id, task_id |-> self.task_id,
     action |-> self.action, tool_id |-> self.tool_id,
     input_hash |-> hash_value(self.input), output_hash |-> hash_value(self.output),
     parent_hash |-> self.parent_hash, signature |-> <<>>]

\* the arguments callers give the builder
Actions == {"ToolCall", "MemoryWrite", "Deploy"}
ToolIds == {1}
Payloads == {JsonNull, JsonObject(<<<<"query", "test">>>>)}
Timestamps == {0, 1}

\* LedgerBlockBuilder::new(..)
New(tenant_id, action, sequence_number) ==
    /\ builder = <<>>
    /\ builder' = <<builder_new(tenant_id, 1, 1, action, genesis, sequence_number)>>
    /\ UNCHANGED <<store_vars, ret, slice_vars, thread_vars, text, session_vars>>

\* .tool_id(id)
ToolId(id) ==
    /\ builder # <<>>
    /\ builder' = <<[builder[1] EXCEPT !.tool_id = <<id>>]>>
    /\ UNCHANGED <<store_vars, ret, slice_vars, thread_vars, text, session_vars>>

\* .input(v)
Input(v) ==
    /\ builder # <<>>
    /\ builder' = <<[builder[1] EXCEPT !.input = v]>>
    /\ UNCHANGED <<store_vars, ret, slice_vars, thread_vars, text, session_vars>>

\* .output(v)
Output(v) ==
    /\ builder # <<>>
    /\ builder' = <<[builder[1] EXCEPT !.output = v]>>
    /\ UNCHANGED <<store_vars, ret, slice_vars, thread_vars, text, session_vars>>

\* .build(): the builder is consumed
Build(id, now) ==
    /\ builder # <<>>
    /\ ret' = Call("build", builder[1], Ok(<<builder_build(builder[1], id, now)>>))
    /\ builder' = <<>>
    /\ UNCHANGED <<store_vars, slice_vars, thread_vars, text, session_vars>>

NewAny == \E t \in TenantIds, action \in Actions, seq \in SeqNums : New(t, action, seq)
ToolIdAny == \E id \in ToolIds : ToolId(id)
InputAny == \E v \in Payloads : Input(v)
OutputAny == \E v \in Payloads : Output(v)
BuildAny == \E id \in BlockIds, now \in Timestamps : Build(id, now)

NextBuilder ==
    \/ NewAny
    \/ ToolIdAny
    \/ InputAny
    \/ OutputAny
    \/ BuildAny

SpecBuilder == Init /\ [][NextBuilder]_vars

\* C19: in every block that build() returns, tool_id is present only when the
\* action is ToolCall.
C19_ToolIdOnlyForToolCall ==
    ret.op = "build" =>
        (ret.res.val[1].tool_id # <<>> => ret.res.val[1].action = "ToolCall")

\* build() has returned blocks with and without tool_id for a ToolCall
C19_Reached ==
    /\ ret.op = "build"
    /\ ret.res.val[1].action = "ToolCall"
    /\ ret.res.val[1].tool_id # <<>>
    /\ ret.res.val[1].input_hash # ret.res.val[1].output_hash

----------------------------------------------------------------------------
(* Sequence numbers and verify_chain *)

\* sequence numbers that repeat, leave a gap or go down somewhere along bs
SeqRepeats(bs) ==
    \E i \in 1..Len(bs), j \in 1..Len(bs) :
        i # j /\ bs[i].sequence_number = bs[j].sequence_number
SeqSkips(bs) ==
    \E i \in 2..Len(bs) : bs[i].sequence_number > bs[i - 1].sequence_number + 1
SeqDecreases(bs) ==
    \E i \in 2..Len(bs) : bs[i].sequence_number < bs[i - 1].sequence_number

\* C20: a sequence whose first parent_hash is genesis and whose every
\* parent_hash is the chain-hash of its predecessor verifies also when its
\* sequence numbers repeat, leave gaps or decrease.
C20_SequenceNumbersNotEnforced ==
    (/\ ret.op = "verify_chain"
     /\ Linked(ret.arg)
     /\ SeqRepeats(ret.arg) \/ SeqSkips(ret.arg) \/ SeqDecreases(ret.arg)) =>
        ret.res = Ok(<<>>)

\* a linked chain whose sequence numbers leave a gap, then go down to a number
\* used before, has verified
C20_Witness ==
    /\ ret.op = "verify_chain"
    /\ ret.res.ok
    /\ Len(ret.arg) = 3
    /\ Linked(ret.arg)
    /\ SeqRepeats(ret.arg) /\ SeqSkips(ret.arg) /\ SeqDecreases(ret.arg)

----------------------------------------------------------------------------
(* hash_value on payloads built member by member.  An object of
   serde_json::Value is a serde_json::Map, which keeps its members sorted by
   key (a BTreeMap, the Map of serde_json as the crate is used here); json!
   and Map::insert put the members in one after the other. *)

\* the keys of the payloads, in the order of str::cmp, and their values
MemberKeys == <<"a", "b">>
MemberValues == {"1", "2"}

\* the position of a key in the order of the keys
key_rank(k) == CHOOSE i \in 1..Len(MemberKeys) : MemberKeys[i] = k

\* an insert that puts a new member behind the others, as an insertion-ordered map does
RECURSIVE map_insert_at_end(_, _, _)
map_insert_at_end(ms, k, v) ==
    IF Len(ms) = 0 THEN <<<<k, v>>>>
    ELSE IF ms[1][1] = k THEN <<<<k, v>>>> \o Tail(ms)
    ELSE <<ms[1]>> \o map_insert_at_end(Tail(ms), k, v)

\* Map::insert(k, v): the value of k is replaced, a new key goes to its place in key order
RECURSIVE map_insert(_, _, _)
map_insert(ms, k, v) ==
    IF Len(ms) = 0 THEN <<<<k, v>>>>
    ELSE IF ms[1][1] = k THEN <<<<k, v>>>> \o Tail(ms)
    ELSE IF key_rank(k) < key_rank(ms[1][1]) THEN <<<<k, v>>>> \o ms
    ELSE <<ms[1]>> \o map_insert(Tail(ms), k, v)

\* the members of the map after the inserts of ins, first to last
RECURSIVE map_from(_)
map_from(ins) ==
    IF Len(ins) = 0 THEN <<>>
    ELSE map_insert(map_from(SubSeq(ins, 1, Len(ins) - 1)), ins[Len(ins)][1], ins[Len(ins)][2])

\* the ways a caller builds a payload: Value::Null, or an object by up to
\* MaxMembers inserts
RECURSIVE InsertSeqs(_)
InsertSeqs(n) ==
    IF n = 0 THEN {<<>>}
    ELSE InsertSeqs(n - 1) \cup
         {Append(s, <<MemberKeys[i], v>>) :
             s \in {t \in InsertSeqs(n - 1) : Len(t) = n - 1},
             i \in 1..Len(MemberKeys), v \in MemberValues}

Constructions ==
    {[null |-> TRUE, inserts |-> <<>>]} \cup
    {[null |-> FALSE, inserts |-> ins] : ins \in InsertSeqs(MaxMembers)}

\* the serde_json::Value a construction ends with
value_of(c) == IF c.null THEN JsonNull ELSE JsonObject(map_from(c.inserts))

\* hash_value(&v1), hash_value(&v1) again and hash_value(&v2)
HashValues(c1, c2) ==
    /\ ret.op = "none"
    /\ ret' = Call("hash_value", <<c1, c2>>,
                   Ok(<<hash_value(value_of(c1)), hash_value(value_of(c1)),
                        hash_value(value_of(c2))>>))
    /\ UNCHANGED <<store_vars, slice_vars, other_vars, session_vars>>

\* LedgerBlockBuilder::new(..).input(v1).output(v2).build()
BuildWith(c1, c2) ==
    /\ ret.op = "hash_value"
    /\ ret.arg = <<c1, c2>>
    /\ \E id \in BlockIds :
         ret' = Call("build_with", <<c1, c2>>,
                     Ok(<<builder_build(
                           [builder_new(1, 1, 1, "ToolCall", genesis, 1)
                               EXCEPT !.input = value_of(c1), !.output = value_of(c2)],
                           id, 0)>>))
    /\ UNCHANGED <<store_vars, slice_vars, other_vars, session_vars>>

HashValuesAny ==
    /\ ret.op = "none"
    /\ \E c1 \in Constructions, c2 \in Constructions : HashValues(c1, c2)

BuildWithAny ==
    /\ ret.op = "hash_value"
    /\ BuildWith(ret.arg[1], ret.arg[2])

NextPayload ==
    \/ HashValuesAny
    \/ BuildWithAny

SpecPayload == Init /\ [][NextPayload]_vars

\* the members a construction leaves: for each key inserted, its last value
Members(c) ==
    {<<c.inserts[i][1], c.inserts[i][2]>> : i \in
        {i \in 1..Len(c.inserts) :
            \A j \in (i + 1)..Len(c.inserts) : c.inserts[j][1] # c.inserts[i][1]}}

\* two constructions end with the same logical payload
SamePayload(c1, c2) == c1.null = c2.null /\ Members(c1) = Members(c2)

----------------------------------------------------------------------------
(* Reads and audits next to appends, a poisoned lock and a slice of the caller *)

\* the caller's slice is made of first blocks of one tenant
PushFirstAny == \E id \in BlockIds : PushBlock(make_block(id, 1, 1, genesis))

NextReads ==
    \/ NextPoison
    \/ PushFirstAny
    \/ VerifyChain

SpecReads == Init /\ [][NextReads]_vars

ReadingOps == {"verify_tenant", "get_blocks", "get_block", "count"}

\* C22: a step of verify_tenant, get_blocks, get_block or count, successful or
\* not, leaves the stored blocks of every tenant as they were, and a step of
\* verify_chain leaves the slice it was given as it was.
C22_ReadsHaveNoEffect ==
    [][/\ (ret' # ret /\ ret'.op \in ReadingOps) =>
            (blocks' = blocks /\ \A t \in TenantIds : store_get(blocks', t) = hist[t])
       /\ (ret' # ret /\ ret'.op = "verify_chain") =>
            (chain' = chain /\ ret'.arg = chain /\ blocks' = blocks)]_vars

\* an audit has failed on the broken chain of a tenant whose blocks are all
\* still stored
C22_Witness ==
    /\ ~poisoned
    /\ ret.op = "verify_tenant"
    /\ ~ret.res.ok
    /\ ret.res.err.kind = "LedgerIntegrityViolation"
    /\ Len(store_get(blocks, ret.arg)) = MaxBlocks
    /\ chain # <<>>

----------------------------------------------------------------------------
(* aether-session: keys.rs, history.rs, manager.rs *)

\* SessionKey::new
SessionKey(tenant_id, agent_id, channel, peer_id) ==
    [tenant_id |-> tenant_id, agent_id |-> agent_id, channel |-> channel, peer_id |-> peer_id]

\* impl Display for SessionKey
key_to_string(key) ==
    "tenant:" \o uuid_to_string(key.tenant_id) \o ":agent:" \o uuid_to_string(key.agent_id)
        \o ":channel:" \o key.channel \o ":peer:" \o key.peer_id

\* MemoryMessage { role, content }
MemoryMessage(role, content) == [role |-> role, content |-> content]

\* ConversationHistory::add_user, add_assistant
add_user(messages, content) == Append(messages, MemoryMessage("User", content))
add_assistant(messages, content) == Append(messages, MemoryMessage("Assistant", content))

\* a truncation that keeps the oldest n messages
truncate_to_first(messages, n) ==
    IF Len(messages) > n THEN SubSeq(messages, 1, n) ELSE messages

\* ConversationHistory::truncate_to_last
truncate_to_last(messages, n) ==
    IF Len(messages) > n
    THEN LET drop == Len(messages) - n
         IN  SubSeq(messages, drop + 1, Len(messages))
    ELSE messages

\* Session::new
session_new(key) ==
    [key |-> key, history |-> <<>>, summary |-> <<>>, turns_since_summary |-> 0]

\* SessionManager::new
manager_new(max_history) ==
    [sessions |-> [k \in {} |-> session_new(SessionKey(1, 1, "", ""))],
     max_history |-> max_history]

\* the body of add_user_turn on the entry of the key
turn_added(session, user, assistant, max_history) ==
    LET pushed == add_assistant(add_user(session.history, user), assistant)
    IN  [session EXCEPT
            !.history = IF Len(pushed) > max_history
                        THEN truncate_to_last(pushed, max_history)
                        ELSE pushed,
            !.turns_since_summary = @ + 1]

\* sessions.entry(k).or_insert_with(|| Session::new(key))
entry_or_insert(sessions, key) ==
    IF key_to_string(key) \in DOMAIN sessions
    THEN sessions
    ELSE sessions @@ (key_to_string(key) :> session_new(key))

\* SessionManager::add_user_turn
add_user_turn(self, key, user, assistant) ==
    LET k == key_to_string(key)
        entered == entry_or_insert(self.sessions, key)
    IN  [self EXCEPT !.sessions =
            [entered EXCEPT ![k] = turn_added(@, user, assistant, self.max_history)]]

\* SessionManager::history_len
history_len(self, key) ==
    IF key_to_string(key) \in DOMAIN self.sessions
    THEN Len(self.sessions[key_to_string(key)].history)
    ELSE 0

\* the keys, the turns and the limits of the callers
SessionKeys == {SessionKey(1, 1, "discord", "user42"), SessionKey(2, 1, "discord", "user42")}
UserTexts == {"hello", "msg"}
AssistantTexts == {"hi there"}
MaxHistories == 0..MaxHistory

\* the messages added under a key string so far
SaidUnder(k) == IF k \in DOMAIN said THEN said[k] ELSE <<>>

\* SessionManager::new(m)
SessionManagerNew(m) ==
    /\ manager = <<>>
    /\ manager' = <<manager_new(m)>>
    /\ ret' = Call("new", m, Ok(<<>>))
    /\ UNCHANGED <<store_vars, slice_vars, other_vars, said>>

\* mgr.add_user_turn(&key, user, assistant)
AddUserTurn(key, user, assistant) ==
    /\ manager # <<>>
    /\ Len(SaidUnder(key_to_string(key))) < 2 * MaxTurns
    /\ manager' = <<add_user_turn(manager[1], key, user, assistant)>>
    /\ said' = [k \in DOMAIN said \cup {key_to_string(key)} |->
                  IF k = key_to_string(key)
                  THEN SaidUnder(k) \o <<MemoryMessage("User", user),
                                         MemoryMessage("Assistant", assistant)>>
                  ELSE said[k]]
    /\ ret' = Call("add_user_turn", key, Ok(<<>>))
    /\ UNCHANGED <<store_vars, slice_vars, other_vars>>

\* mgr.history_len(&key)
HistoryLen(key) ==
    /\ manager # <<>>
    /\ ret' = Call("history_len", key, Ok(<<history_len(manager[1], key)>>))
    /\ UNCHANGED <<store_vars, slice_vars, other_vars, session_vars>>

\* mgr.remove(&key)
Remove(key) ==
    /\ manager # <<>>
    /\ manager' = <<[manager[1] EXCEPT !.sessions =
                       [k \in DOMAIN @ \ {key_to_string(key)} |-> @[k]]]>>
    /\ said' = [k \in DOMAIN said \ {key_to_string(key)} |-> said[k]]
    /\ ret' = Call("remove", key, Ok(<<>>))
    /\ UNCHANGED <<store_vars, slice_vars, other_vars>>

NewManagerAny == \E m \in MaxHistories : SessionManagerNew(m)
AddUserTurnAny ==
    \E key \in SessionKeys, user \in UserTexts, assistant \in AssistantTexts :
        AddUserTurn(key, user, assistant)
HistoryLenAny == \E key \in SessionKeys : HistoryLen(key)
RemoveSessionAny == \E key \in SessionKeys : Remove(key)

NextSession ==
    \/ NewManagerAny
    \/ AddUserTurnAny
    \/ HistoryLenAny
    \/ RemoveSessionAny

SpecSession == Init /\ [][NextSession]_vars

\* the last n elements of a sequence, all of it when it is shorter
LastOf(seq, n) ==
    IF Len(seq) <= n THEN seq ELSE [i \in 1..n |-> seq[Len(seq) - n + i]]

\* C23: with max_history = m, the history of every session has at most m
\* messages and is the most recent m (or all, when fewer) of the messages added
\* to it, in the order they were added; history_len returns that length.
C23_HistoryBoundedByMax ==
    manager # <<>> =>
        /\ \A k \in DOMAIN manager[1].sessions :
               /\ Len(manager[1].sessions[k].history) <= manager[1].max_history
               /\ manager[1].sessions[k].history = LastOf(SaidUnder(k), manager[1].max_history)
        /\ ret.op = "history_len" =>
               /\ ret.res.val[1] <= manager[1].max_history
               /\ ret.res.val[1] = Len(LastOf(SaidUnder(key_to_string(ret.arg)),
                                              manager[1].max_history))

\* a session that was given three turns with max_history = 3 holds the last
\* three messages, beginning with an assistant message
C23_Witness ==
    /\ manager # <<>>
    /\ manager[1].max_history = 3
    /\ ret.op = "history_len"
    /\ ret.res.val[1] = 3
    /\ Len(SaidUnder(key_to_string(ret.arg))) = 6
    /\ manager[1].sessions[key_to_string(ret.arg)].history[1].role = "Assistant"
    /\ SaidUnder(key_to_string(ret.arg))[1].content # SaidUnder(key_to_string(ret.arg))[5].content

----------------------------------------------------------------------------
(* SessionKey::parse and Display (keys.rs) *)

\* the position of the first ':' of s at or after i, 0 when there is none
RECURSIVE find_colon(_, _)
find_colon(s, i) ==
    IF i > Len(s) THEN 0
    ELSE IF SubSeq(s, i, i) = ":" THEN i
    ELSE find_colon(s, i + 1)

\* str::splitn(n, ':'): at most n parts, the last one is the rest of the string
RECURSIVE splitn(_, _)
splitn(s, n) ==
    IF n = 0 THEN <<>>
    ELSE LET at == find_colon(s, 1)
         IN  IF n = 1 \/ at = 0
             THEN <<s>>
             ELSE <<SubSeq(s, 1, at - 1)>> \o splitn(SubSeq(s, at + 1, Len(s)), n - 1)

\* the Uuid values of the model
Uuids == {1, 2}

\* the simple and the braced text of a Uuid, which Uuid::parse_str accepts
\* next to the hyphenated one
uuid_simple(u) == "0000000000004000800000000000000" \o ToString(u)
uuid_braced(u) == "{" \o uuid_to_string(u) \o "}"
UuidTexts(u) == {uuid_to_string(u), uuid_simple(u), uuid_braced(u)}

\* <TenantId as FromStr>::from_str(s).ok(): <<>> is None, <<u>> is Some(u)
parse_id(s) ==
    IF \E u \in Uuids : s \in UuidTexts(u)
    THEN <<CHOOSE u \in Uuids : s \in UuidTexts(u)>>
    ELSE <<>>

\* SessionKey::parse: <<>> is None, <<key>> is Some(key)
parse(s) ==
    LET parts == splitn(s, 8)
    IN  IF Len(parts) # 8 THEN <<>>
        ELSE IF parts[1] # "tenant" \/ parts[3] # "agent"
                \/ parts[5] # "channel" \/ parts[7] # "peer" THEN <<>>
        ELSE IF parse_id(parts[2]) = <<>> THEN <<>>
        ELSE IF parse_id(parts[4]) = <<>> THEN <<>>
        ELSE <<SessionKey(parse_id(parts[2])[1], parse_id(parts[4])[1], parts[6], parts[8])>>

\* the channel names and peer ids of the callers
Channels == {"discord", "web", "", "a:b", "x:peer"}
PeerIds == {"user123", "y", "", "peer:y", "u:1"}
AnyKeys ==
    {SessionKey(t, a, c, p) : t \in Uuids, a \in Uuids, c \in Channels, p \in PeerIds}

\* strings handed to parse that no to_string produced
OtherTexts ==
    {"invalid-key", "", "tenant:1:agent:1:channel:discord:peer:user123",
     "tenant:" \o uuid_to_string(1) \o ":agent:" \o uuid_to_string(1) \o ":channel:discord",
     "user:" \o uuid_to_string(1) \o ":agent:" \o uuid_to_string(1) \o ":channel:discord:peer:y",
     "tenant:" \o uuid_to_string(1) \o ":agent:" \o uuid_to_string(1) \o ":peer:discord:channel:y",
     "tenant:" \o uuid_simple(1) \o ":agent:" \o uuid_braced(2) \o ":channel:discord:peer:y",
     "tenant:" \o uuid_to_string(1) \o ":agent:" \o uuid_to_string(3) \o ":channel:discord:peer:y"}

\* let s = key.to_string()
KeyToString(key) ==
    /\ ret.op = "none"
    /\ ret' = Call("to_string", key, Ok(<<key_to_string(key)>>))
    /\ UNCHANGED <<store_vars, slice_vars, other_vars, session_vars>>

\* SessionKey::parse(&s) of the string to_string returned
ParseReturned ==
    /\ ret.op = "to_string"
    /\ ret' = Call("parse", ret.res.val[1], Ok(<<parse(ret.res.val[1])>>))
    /\ UNCHANGED <<store_vars, slice_vars, other_vars, session_vars>>

\* SessionKey::parse(s) of any other string
ParseText(s) ==
    /\ ret.op = "none"
    /\ ret' = Call("parse", s, Ok(<<parse(s)>>))
    /\ UNCHANGED <<store_vars, slice_vars, other_vars, session_vars>>

KeyToStringAny == ret.op = "none" /\ \E key \in AnyKeys : KeyToString(key)
ParseTextAny == ret.op = "none" /\ \E s \in OtherTexts : ParseText(s)

NextKeys ==
    \/ KeyToStringAny
    \/ ParseReturned
    \/ ParseTextAny

SpecKeys == Init /\ [][NextKeys]_vars

\* s begins with prefix
StartsWith(s, prefix) ==
    Len(s) >= Len(prefix) /\ SubSeq(s, 1, Len(prefix)) = prefix

\* s contains part at or after position i
Includes(s, part, i) ==
    \E j \in i..(Len(s) - Len(part) + 1) : SubSeq(s, j, j + Len(part) - 1) = part

\* s is tenant:{id}:agent:{id}:channel:{name}:peer:{id} for two ids and some
\* name and peer id
OfKeyForm(s) ==
    \E t \in Uuids, a \in Uuids : \E tt \in UuidTexts(t), at \in UuidTexts(a) :
        LET head == "tenant:" \o tt \o ":agent:" \o at \o ":channel:"
        IN  StartsWith(s, head) /\ Includes(s, ":peer:", Len(head) + 1)

\* C24: parse(k.to_string()) is Some(k) for every key k, whatever its channel
\* and peer_id are, and a string that is not of the key form parses to None.
C24_KeyRoundTrips ==
    ret.op = "parse" =>
        /\ \A key \in AnyKeys :
               key_to_string(key) = ret.arg => ret.res.val[1] = <<key>>
        /\ ~OfKeyForm(ret.arg) => ret.res.val[1] = <<>>

\* parse of a string that is not of the key form is None, and a key whose
\* channel has no ':' comes back from its string
C24_ColonFreeChannelRoundTrips ==
    ret.op = "parse" =>
        /\ \A key \in AnyKeys :
               (key_to_string(key) = ret.arg /\ find_colon(key.channel, 1) = 0)
                   => ret.res.val[1] = <<key>>
        /\ ~OfKeyForm(ret.arg) => ret.res.val[1] = <<>>

\* the string of a key with channel "x:peer" has been parsed into another key
C24_ParsedAnotherKey ==
    /\ ret.op = "parse"
    /\ ret.res.val[1] # <<>>
    /\ \E key \in AnyKeys :
           /\ key_to_string(key) = ret.arg
           /\ key.channel = "x:peer"
           /\ ret.res.val[1][1] # key

\* the string of a key with channel "a:b" has been parsed into None
C24_ParsedNone ==
    /\ ret.op = "parse"
    /\ ret.res.val[1] = <<>>
    /\ \E key \in AnyKeys : key_to_string(key) = ret.arg /\ key.channel = "a:b"

----------------------------------------------------------------------------
(* aether-policy: rules.rs, evaluation.rs, engine.rs *)

\* ToolAccessLevel with its discriminants, which derive(PartialOrd) compares
Public == 0
Protected == 1
Restricted == 2
Critical == 3
ToolAccessLevels == {Public, Protected, Restricted, Critical}

\* AgentTier(pub u8): BOSS = 1 .. SENSOR = 4, and the values next to them
AgentTiers == 0..5

\* an f64 in hundredths, or NaN
F64(hundredths) == [nan |-> FALSE, v |-> hundredths]
NaN == [nan |-> TRUE, v |-> 0]

\* a <= b on f64: false when either side is NaN
f64_le(a, b) == ~a.nan /\ ~b.nan /\ a.v <= b.v

\* PolicyDecision::allow, PolicyDecision::deny, is_allowed
allow(rule_id) ==
    [effect |-> "Allow", matched_rule |-> rule_id, reason |-> "allowed by policy"]
deny(rule_id, reason) ==
    [effect |-> "Deny", matched_rule |-> rule_id, reason |-> reason]
is_allowed(decision) == decision.effect = "Allow"

\* the conditions and effects of rules
BudgetAbove(threshold) == [type |-> "BudgetAbove", threshold |-> threshold]
ToolAccessLevel(required) == [type |-> "ToolAccessLevel", required |-> required]
AgentTierMinimum(minimum) == [type |-> "AgentTierMinimum", minimum |-> minimum]
AlwaysAllow == [type |-> "AlwaysAllow"]
Allow == [allow |-> TRUE, reason |-> ""]
Deny(reason) == [allow |-> FALSE, reason |-> reason]
PolicyRule(id, condition, effect) == [id |-> id, condition |-> condition, effect |-> effect]

\* default_rules()
default_rules ==
    << PolicyRule("budget-exhausted-deny", BudgetAbove(F64(0)), Deny("budget exhausted")),
       PolicyRule("critical-tool-deny-agent", ToolAccessLevel(Critical),
                  Deny("CRITICAL tools require human-in-the-loop approval")),
       PolicyRule("restricted-tool-requires-approval", ToolAccessLevel(Restricted),
                  Deny("RESTRICTED tool requires policy approval")),
       PolicyRule("protected-tool-tier-2-minimum", AgentTierMinimum(2), Allow),
       PolicyRule("public-tool-allow-all", AlwaysAllow, Allow) >>

\* PolicyResource::Tool { access_level, .. } and the other resources
ToolResource(access_level) == [type |-> "tool", access_level |-> access_level]
OtherResource(type) == [type |-> type, access_level |-> Public]

\* EvaluationContext::tool_execute and contexts of other resources
EvaluationContext(agent_tier, resource, budget, restricted_approved) ==
    [subject |-> [agent_tier |-> agent_tier, user_role |-> <<>>,
                  budget_remaining_fraction |-> budget,
                  restricted_approved |-> restricted_approved],
     resource |-> resource]

\* PolicyEngine::extract_tool_access: <<>> is None
extract_tool_access(ctx) ==
    IF ctx.resource.type = "tool" THEN <<ctx.resource.access_level>> ELSE <<>>

\* the match of evaluate_rule on rule.condition (user_role is None in every
\* context built here, so UserRoleMinimum never matches)
matched(rule, ctx) ==
    CASE rule.condition.type = "BudgetAbove" ->
            f64_le(ctx.subject.budget_remaining_fraction, rule.condition.threshold)
      [] rule.condition.type = "ToolAccessLevel" ->
            /\ extract_tool_access(ctx) # <<>>
            /\ extract_tool_access(ctx)[1] >= rule.condition.required
      [] rule.condition.type = "AgentTierMinimum" ->
            ctx.subject.agent_tier <= rule.condition.minimum
      [] rule.condition.type = "RestrictedApproved" -> ctx.subject.restricted_approved
      [] rule.condition.type = "UserRoleMinimum" -> FALSE
      [] rule.condition.type = "AlwaysAllow" -> TRUE
      [] rule.condition.type = "AlwaysDeny" -> TRUE

\* PolicyEngine::evaluate_rule: <<>> is None
evaluate_rule(rule, ctx) ==
    IF ~matched(rule, ctx) THEN <<>>
    ELSE IF rule.effect.allow
         THEN <<allow(rule.id)>>
         ELSE <<deny(rule.id, rule.effect.reason)>>

\* the loop of decide from rule i on
RECURSIVE decide_from(_, _, _)
decide_from(rules, ctx, i) ==
    IF i > Len(rules)
    THEN deny("default-deny", "no matching rule - default deny")
    ELSE IF evaluate_rule(rules[i], ctx) # <<>>
         THEN evaluate_rule(rules[i], ctx)[1]
         ELSE decide_from(rules, ctx, i + 1)

\* PolicyEngine::decide
decide(rules, ctx) == decide_from(rules, ctx, 1)

\* the contexts handed to the engine
Budgets == {F64(-50), F64(0), F64(1), F64(50), F64(100), NaN}
Resources ==
    {ToolResource(a) : a \in ToolAccessLevels}
        \cup {OtherResource(t) : t \in {"agent", "workflow", "memory"}}
Contexts ==
    {EvaluationContext(tier, resource, budget, approved) :
        tier \in AgentTiers, resource \in Resources, budget \in Budgets,
        approved \in BOOLEAN}

\* PolicyEngine::default().decide(&ctx)
Decide(ctx) ==
    /\ ret.op = "none"
    /\ ret' = Call("decide", ctx, Ok(<<decide(default_rules, ctx)>>))
    /\ UNCHANGED <<store_vars, slice_vars, other_vars, session_vars>>

DecideAny == ret.op = "none" /\ \E ctx \in Contexts : Decide(ctx)

NextPolicy == DecideAny

SpecPolicy == Init /\ [][NextPolicy]_vars

\* the tool access level decide was asked about, when it was about a tool
DecidedTool(level) ==
    /\ ret.op = "decide"
    /\ ret.arg.resource.type = "tool"
    /\ ret.arg.resource.access_level = level

\* C25: under the default rules a Protected tool is allowed only for tiers
\* <= 2 and denied to tiers 3 and 4, a Public tool is allowed for all tiers
\* while budget remains, Critical and Restricted tools are denied, and
\* everything is denied when the remaining budget fraction is 0.
C25_ProtectedNeedsTierTwo ==
    ret.op = "decide" =>
        LET tier == ret.arg.subject.agent_tier
            budget == ret.arg.subject.budget_remaining_fraction
            allowed == is_allowed(ret.res.val[1])
        IN  /\ (DecidedTool(Protected) /\ allowed) => tier <= 2
            /\ (DecidedTool(Protected) /\ tier \in {3, 4}) => ~allowed
            /\ (DecidedTool(Public) /\ f64_le(F64(1), budget)) => allowed
            /\ (DecidedTool(Critical) \/ DecidedTool(Restricted)) => ~allowed
            /\ budget = F64(0) => ~allowed

\* the same without the two statements on Protected tools
C25_AllButProtected ==
    ret.op = "decide" =>
        LET budget == ret.arg.subject.budget_remaining_fraction
            allowed == is_allowed(ret.res.val[1])
        IN  /\ (DecidedTool(Public) /\ f64_le(F64(1), budget)) => allowed
            /\ (DecidedTool(Critical) \/ DecidedTool(Restricted)) => ~allowed
            /\ budget = F64(0) => ~allowed

\* a tier 3 agent with full budget has been allowed a Protected tool by the
\* rule for Public tools
C25_ProtectedAllowedForWorker ==
    /\ DecidedTool(Protected)
    /\ ret.arg.subject.agent_tier = 3
    /\ ret.arg.subject.budget_remaining_fraction = F64(100)
    /\ is_allowed(ret.res.val[1])
    /\ ret.res.val[1].matched_rule = "public-tool-allow-all"

----------------------------------------------------------------------------
(* SessionManager shared by threads: get_or_create is a get and then an insert *)

\* sessions.get(&k) of get_or_create by thread i: the stored session is cloned
\* and returned, or a new one is made and the thread goes on to insert it
GetOrCreateGet(i, key) ==
    /\ manager # <<>>
    /\ thr[i].pc = "idle"
    /\ IF key_to_string(key) \in DOMAIN manager[1].sessions
       THEN /\ ret' = Call("get_or_create", key,
                           Ok(<<manager[1].sessions[key_to_string(key)]>>))
            /\ thr' = thr
       ELSE /\ thr' = [thr EXCEPT ![i] =
                          [pc |-> "created",
                           call |-> Call("get_or_create", key, Ok(<<session_new(key)>>))]]
            /\ ret' = ret
    /\ UNCHANGED <<store_vars, slice_vars, lock, text, builder, session_vars>>

\* DashMap::insert(k, v): the value stored under k becomes v
map_insert_value(sessions, k, v) ==
    [j \in DOMAIN sessions \cup {k} |-> IF j = k THEN v ELSE sessions[j]]

\* sessions.insert(k, s.clone()); s of get_or_create by thread i
GetOrCreateInsert(i) ==
    /\ manager # <<>>
    /\ thr[i].pc = "created"
    /\ manager' = <<[manager[1] EXCEPT !.sessions =
                       map_insert_value(@, key_to_string(thr[i].call.arg),
                                        thr[i].call.res.val[1])]>>
    /\ ret' = thr[i].call
    /\ thr' = [thr EXCEPT ![i] = Idle]
    /\ UNCHANGED <<store_vars, slice_vars, lock, text, builder, said>>

\* the threads that share the manager, and what they call it with
SessionThreads == {1, 2}
NewSharedManager == SessionManagerNew(MaxHistory)
AddSharedTurnAny == \E key \in SessionKeys : AddUserTurn(key, "hello", "hi there")
GetOrCreateGetAny == \E i \in SessionThreads, key \in SessionKeys : GetOrCreateGet(i, key)
GetOrCreateInsertAny == \E i \in SessionThreads : GetOrCreateInsert(i)

NextSessionThreads ==
    \/ NewSharedManager
    \/ AddSharedTurnAny
    \/ HistoryLenAny
    \/ RemoveSessionAny
    \/ GetOrCreateGetAny
    \/ GetOrCreateInsertAny

SpecSessionThreads == Init /\ [][NextSessionThreads]_vars

\* C26: in every interleaving of get_or_create and add_user_turn, no step but
\* a remove takes a stored session away or makes its history shorter, and a
\* get_or_create step leaves every stored session as it is.
C26_GetOrCreateNeverReplaces ==
    [][manager # <<>> =>
         \A k \in DOMAIN manager[1].sessions :
             \/ ret' # ret /\ ret'.op = "remove" /\ key_to_string(ret'.arg) = k
             \/ /\ k \in DOMAIN manager'[1].sessions
                /\ Len(manager'[1].sessions[k].history)
                       >= Len(manager[1].sessions[k].history)
                /\ (thr' # thr \/ (ret' # ret /\ ret'.op = "get_or_create"))
                       => manager'[1].sessions[k] = manager[1].sessions[k]]_vars

\* a get_or_create has returned an empty session while turns of a completed
\* add_user_turn on its key are no longer stored
C26_TurnsLost ==
    /\ manager # <<>>
    /\ ret.op = "get_or_create"
    /\ manager[1].max_history > 0
    /\ Len(SaidUnder(key_to_string(ret.arg))) > 0
    /\ history_len(manager[1], ret.arg) = 0

----------------------------------------------------------------------------
(* Where verify_chain reports an alteration, and which violation it reports *)

\* one chained field of a block that has a successor was changed in a slice
\* that verified, and verify_chain has been run on the altered slice
FieldOfInnerBlockAltered ==
    /\ AlteredAndVerified
    /\ tamper.kind = "field"
    /\ tamper.index < Len(orig)

\* C27: after one of the five chained fields of a block that has a successor is
\* changed in a chain that verified, verify_chain fails; the error names the
\* altered block when its parent_hash was changed and its successor otherwise.
C27_AlterationReportedAtBlockOrSuccessor ==
    FieldOfInnerBlockAltered =>
        LET i == tamper.index
        IN  /\ ~ret.res.ok
            /\ ret.res.err.kind = "LedgerIntegrityViolation"
            /\ tamper.field = "parent_hash" =>
                   /\ ret.res.err.block_id = uuid_to_string(chain[i].id)
                   /\ ret.res.err =
                          IF i = 1 THEN first_block_error(chain[1])
                          ELSE mismatch_error(chain[i], compute_block_hash(chain[i - 1]))
            /\ tamper.field # "parent_hash" =>
                   /\ ret.res.err.block_id = uuid_to_string(chain[i + 1].id)
                   /\ ret.res.err =
                          mismatch_error(chain[i + 1], compute_block_hash(chain[i]))

\* the sequence number of the second of three blocks was changed and the error
\* names the third block, whose id is not the id of the second
C27_Witness ==
    /\ FieldOfInnerBlockAltered
    /\ tamper = Tamper("field", 2, "sequence_number")
    /\ Len(chain) = 3
    /\ chain[2].id # chain[3].id
    /\ ret.res.err.block_id = uuid_to_string(chain[3].id)

\* the parent_hash of the second of three blocks was changed and the error names
\* the second block
C27_ParentAlteredReached ==
    /\ FieldOfInnerBlockAltered
    /\ tamper = Tamper("field", 2, "parent_hash")
    /\ Len(chain) = 3
    /\ chain[2].id # chain[3].id
    /\ ret.res.err.block_id = uuid_to_string(chain[2].id)

\* C28: verify_chain reports the earliest violation: the first block when its
\* parent_hash is not genesis, whatever the later links are, and otherwise the
\* block at the smallest position whose parent_hash is not the chain-hash of
\* the block before it, also when later links are broken as well.
C28_EarliestViolationReported ==
    (ret.op = "verify_chain" /\ Len(ret.arg) > 0) =>
        LET bs == ret.arg
        IN  /\ bs[1].parent_hash # genesis => ret.res = Err(first_block_error(bs[1]))
            /\ (bs[1].parent_hash = genesis /\ BrokenLinks(bs) # {}) =>
                   LET i == Least(BrokenLinks(bs))
                   IN  ret.res = Err(mismatch_error(bs[i], compute_block_hash(bs[i - 1])))

\* the first block is sound, both later links are broken, and the error names
\* the second block and not the third
C28_Witness ==
    /\ ret.op = "verify_chain"
    /\ Len(ret.arg) = 3
    /\ ret.arg[1].parent_hash = genesis
    /\ BrokenLinks(ret.arg) = {2, 3}
    /\ ret.arg[2].id # ret.arg[3].id
    /\ ret.res.err.block_id = uuid_to_string(ret.arg[2].id)

\* the first block does not carry genesis, a later link is broken, and the
\* error names the first block
C28_FirstBlockReached ==
    /\ ret.op = "verify_chain"
    /\ Len(ret.arg) = 3
    /\ ret.arg[1].parent_hash # genesis
    /\ BrokenLinks(ret.arg) # {}
    /\ ret.arg[1].id # ret.arg[2].id
    /\ ret.arg[1].id # ret.arg[3].id
    /\ ret.res.err = first_block_error(ret.arg[1])

----------------------------------------------------------------------------
(* Writers and auditors on one store: each call of the storage is one step
   under the lock, and a caller keeps what get_blocks returned while other
   threads go on *)

\* verify_tenant after its get_blocks returned fetched: count, verify_chain, report
verify_fetched(t, fetched) ==
    LET n == Len(fetched)
        checked == verify_chain(fetched)
    IN  IF ~checked.ok THEN checked
        ELSE Ok(<<VerificationReport(t, n)>>)

\* a block that carries genesis whatever the head is
block_on_genesis(id, t, head) == make_block(id, t, Len(head) + 1, genesis)

\* the block a writer builds on the head it read: LedgerBlockBuilder::new with
\* the chain-hash of the head, genesis when the tenant has no block
block_on_head(id, t, head) ==
    make_block(id, t, Len(head) + 1,
               IF Len(head) = 0 THEN genesis
               ELSE compute_block_hash(head[Len(head)]))

\* a writer, thread i, reads the blocks of tenant t with get_blocks
WriterReadsHead(i, t) ==
    /\ ~poisoned
    /\ thr[i].pc = "idle"
    /\ TotalBlocks < MaxBlocks
    /\ thr' = [thr EXCEPT ![i] = [pc |-> "head", call |-> Call("write", t, get_blocks(t))]]
    /\ UNCHANGED <<store_vars, ret, slice_vars, lock, text, builder, session_vars>>

\* the writer builds its block and appends it
WriterAppends(i, id) ==
    /\ ~poisoned
    /\ thr[i].pc = "head"
    /\ TotalBlocks < MaxBlocks
    /\ LET block == block_on_head(id, thr[i].call.arg, thr[i].call.res.val)
       IN  /\ blocks' = entry_push(blocks, block)
           /\ hist' = [hist EXCEPT ![block.tenant_id] = Append(@, block)]
           /\ ret' = Call("append", block, Ok(<<>>))
    /\ thr' = [thr EXCEPT ![i] = Idle]
    /\ UNCHANGED <<poisoned, slice_vars, lock, text, builder, session_vars>>

\* verify_tenant of thread i: let blocks = self.storage.get_blocks(tenant_id)?
AuditorFetches(i, t) ==
    /\ ~poisoned
    /\ thr[i].pc = "idle"
    /\ thr' = [thr EXCEPT ![i] = [pc |-> "fetched",
                                  call |-> Call("verify_tenant", t, get_blocks(t))]]
    /\ UNCHANGED <<store_vars, ret, slice_vars, lock, text, builder, session_vars>>

\* the rest of verify_tenant, counting the blocks the store holds by now
AuditorVerifiesRecounting(i) ==
    /\ thr[i].pc = "fetched"
    /\ chain' = thr[i].call.res.val
    /\ ret' = Call("verify_tenant", thr[i].call.arg,
                   IF verify_chain(thr[i].call.res.val).ok
                   THEN Ok(<<VerificationReport(thr[i].call.arg,
                                                Len(store_get(blocks, thr[i].call.arg)))>>)
                   ELSE verify_chain(thr[i].call.res.val))
    /\ thr' = [thr EXCEPT ![i] = Idle]
    /\ UNCHANGED <<store_vars, orig, tamper, lock, text, builder, session_vars>>

\* the rest of verify_tenant: the count and verify_chain on the blocks fetched,
\* which are the slice verify_chain is given
AuditorVerifies(i) ==
    /\ thr[i].pc = "fetched"
    /\ chain' = thr[i].call.res.val
    /\ ret' = Call("verify_tenant", thr[i].call.arg,
                   verify_fetched(thr[i].call.arg, thr[i].call.res.val))
    /\ thr' = [thr EXCEPT ![i] = Idle]
    /\ UNCHANGED <<store_vars, orig, tamper, lock, text, builder, session_vars>>

\* the tenant the writers share, the threads that write and the thread that audits
WriterTenants == {1}
WriterThreads == {1, 2}
AuditorThreads == {3}

WriterReadsHeadAny == \E i \in WriterThreads, t \in WriterTenants : WriterReadsHead(i, t)
WriterAppendsAny == \E i \in WriterThreads, id \in BlockIds : WriterAppends(i, id)
AuditorFetchesAny == \E i \in AuditorThreads, t \in WriterTenants : AuditorFetches(i, t)
AuditorVerifiesAny == \E i \in AuditorThreads : AuditorVerifies(i)

NextWriters ==
    \/ WriterReadsHeadAny
    \/ WriterAppendsAny
    \/ AuditorFetchesAny
    \/ AuditorVerifiesAny

SpecWriters == Init /\ [][NextWriters]_vars

\* C29: the report of verify_tenant counts exactly the blocks verify_chain was
\* given, which are the tenant's blocks as one get_blocks returned them: what
\* the store held for the tenant at that moment, without the blocks appended
\* since.
C29_CountsTheSnapshotVerified ==
    /\ [](ret.op = "verify_tenant" =>
            /\ IsPrefix(chain, store_get(blocks, ret.arg))
            /\ ret.res.ok => ret.res.val[1].blocks_verified = Len(chain)
            /\ ret.res = AuditOf(ret.arg, chain))
    /\ [][\A i \in Threads :
            (thr[i].pc = "idle" /\ thr'[i].pc = "fetched") =>
                thr'[i].call.res = Ok(store_get(blocks, thr'[i].call.arg))]_vars
    /\ [][\A i \in Threads :
            (thr[i].pc = "fetched" /\ thr'[i].pc = "idle") =>
                /\ chain' = thr[i].call.res.val
                /\ ret'.arg = thr[i].call.arg]_vars

\* a report counts two blocks while the store holds a third, appended after
\* the blocks were fetched
C29_Witness ==
    /\ ret.op = "verify_tenant"
    /\ ret.res.ok
    /\ ret.res.val[1].blocks_verified = 2
    /\ Len(chain) = 2
    /\ Len(store_get(blocks, ret.arg)) = 3

\* C30 as stated: with writers that read the head with get_blocks, build on it
\* and append, the stored chain of the tenant passes verify_tenant in every
\* reachable state
C30_WritersKeepChainVerifying ==
    \A t \in WriterTenants : verify_tenant(t).ok

\* the head a writer holds is what the store holds for its tenant
HeadCurrent(i) == thr[i].call.res.val = store_get(blocks, thr[i].call.arg)

\* C30 amended: an append by a writer whose head is still the whole stored
\* chain of the tenant leaves a chain that passes verify_tenant passing it; an
\* append built on a head that another append has superseded leaves a chain
\* that fails verify_tenant
C30_AppendOnCurrentHeadKeepsChain ==
    [][\A i \in Threads :
          (thr[i].pc = "head" /\ thr'[i].pc = "idle" /\ verify_tenant(thr[i].call.arg).ok) =>
              (HeadCurrent(i)
                  <=> verify_chain(store_get(blocks', thr[i].call.arg)).ok)]_vars

\* three blocks were appended, each on the current head, while another writer
\* holds a head that is no longer current
C30_Witness ==
    /\ ret.op = "append"
    /\ Len(store_get(blocks, ret.arg.tenant_id)) = 3
    /\ verify_tenant(ret.arg.tenant_id).ok
    /\ \E i \in Threads : thr[i].pc = "head" /\ ~HeadCurrent(i)

\* two writers built on the same head and the stored chain fails verify_tenant
C30_StaleHeadAppended ==
    /\ ret.op = "append"
    /\ Len(store_get(blocks, ret.arg.tenant_id)) = 2
    /\ ~verify_tenant(ret.arg.tenant_id).ok
    /\ verify_tenant(ret.arg.tenant_id).err.block_id = uuid_to_string(ret.arg.id)

============================================================================
